---- MODULE Spec2Model ----
(* The task queue and agent pipeline of trendy-orchestrator:                 *)
(* orchestrator/db.py (the agent_tasks / agent_task_events store) and        *)
(* orchestrator/main.py (process_task, run_once, run_specific).              *)
EXTENDS Integers, Sequences, FiniteSets, TLC

(* ------------------------------ bounds ---------------------------------- *)
NumTasks == 1
NumWorkers == 1
NumQueued == 2
NumCallers == 2
MaxCalls == 3
MaxManual == 1
MaxSpent == 1600

(* ------------------------- program constants ---------------------------- *)
max_review_cycles == 3
daily_budget_cents == 1500

None == 0
Operator == 0

Workers == 1..NumWorkers
Callers == 1..NumCallers
Procs == {Operator} \cup Workers \cup Callers

Priorities == {"urgent", "high", "medium", "low"}
DefaultPriority == "medium"
Terminal == {"done", "failed"}
Statuses == {"queued", "planning", "coding", "reviewing", "testing", "deploying"} \cup Terminal

(* what run_planner returns, as far as process_task reads it: the plan's     *)
(* "complexity" and the number of its "steps"                                *)
Plans == [complexity : {"simple", "unknown"}, steps : {0, 2}]
NoPlan == [complexity |-> "none", steps |-> 0]

(* cost_cents of one completion call: int((in*3 + out*15) / 10000) *)
Costs == {0, 800}

TrustLevels == {"full_auto", "preview_only", "plan_only"}
DefaultTrust == "full_auto"

(* pr_info before create_pull_request, and the last completion before any *)
NoPr == [url |-> None, auto_merge |-> FALSE, merged |-> "absent"]
NoCompletion == [agent |-> "none", text |-> <<>>, outcome |-> "none"]

VARIABLES
    status, priority, created_at, review_attempts, error_message,
    lock, spent,
    pc, cur, attempt, plan, reviews, result,
    trace, written, writtenErr, raised,
    claims, calls, n0, manual,
    trust_level, commit_sha, files_changed, pr_url, agent_log,
    code_output, test_result, pr_info, completion, ops,
    events, task_agent_log,
    title, inbox, loop, ingest, cycle, enq,
    review_feedback, issues, fed, task_status

storeVars == <<status, priority, created_at, review_attempts, error_message, lock, spent>>
procVars == <<pc, cur, attempt, plan, reviews, result>>
runGhost == <<trace, written, writtenErr, raised>>
queueGhost == <<claims, calls, n0, manual>>
(* the task fields the deploy phase reads and writes *)
deliveryVars == <<trust_level, commit_sha, files_changed, pr_url, agent_log>>
(* what one run of process_task holds of its artifact, verdict and change    *)
(* request, the last completion text it received and the delivery operations *)
(* it issued                                                                  *)
detailVars == <<code_output, test_result, pr_info, completion, ops>>
detail == <<deliveryVars, detailVars>>
(* the event ledger of each task, and the agent_log of the task dict a run    *)
(* of process_task holds                                                       *)
ledgerVars == <<events, task_agent_log>>
(* the titles of the stored tasks, the inbox file, and the poll loop of main: *)
(* its position, the progress of check_inbox, what the current cycle did, and *)
(* how often each inbox entry was enqueued                                     *)
pollVars == <<title, inbox, loop, ingest, cycle, enq>>
(* what a run of process_task hands on: the feedback for the next coder call, *)
(* the issue lists its reviewer returned and the feedback each coder call     *)
(* received, and the status field of the task dict it was given               *)
handoffVars == <<review_feedback, issues, fed, task_status>>
vars == <<storeVars, procVars, runGhost, queueGhost, detail, ledgerVars, pollVars, handoffVars>>

(* the rows of agent_tasks *)
TaskIds == DOMAIN status

(* ------------------------------ the store -------------------------------- *)
(* ORDER BY CASE priority WHEN 'urgent' THEN 0 ... END *)
PriorityRankSwapped(p) ==
    CASE p = "urgent" -> 0
      [] p = "high" -> 2
      [] p = "medium" -> 1
      [] p = "low" -> 3

PriorityRank(p) ==
    CASE p = "urgent" -> 0
      [] p = "high" -> 1
      [] p = "medium" -> 2
      [] p = "low" -> 3

(* ORDER BY rank, created_at ASC: t sorts strictly before u *)
SortsBefore(t, u) ==
    \/ PriorityRank(priority[t]) < PriorityRank(priority[u])
    \/ /\ PriorityRank(priority[t]) = PriorityRank(priority[u])
       /\ created_at[t] < created_at[u]

(* WHERE status = 'queued' ... FOR UPDATE SKIP LOCKED: rows a caller may take *)
ClaimableIgnoringLocks(t) == status[t] = "queued"

ClaimableAlsoFailed(t) == status[t] \in {"queued", "failed"} /\ lock[t] = None

Claimable(t) == status[t] = "queued" /\ lock[t] = None

(* LIMIT 1 of the ordered, unlocked, queued rows *)
FirstClaimable(t) ==
    /\ Claimable(t)
    /\ \A u \in TaskIds : Claimable(u) => ~SortsBefore(u, t)

(* get_daily_cost: SUM(cost_cents) of today's events *)
get_daily_cost == spent

(* _check_budget: False when spent >= daily_budget_cents *)
check_budget_always_open == TRUE

check_budget == ~(get_daily_cost >= daily_budget_cents)

(* review_feedback = None *)
NoFeedback == [given |-> FALSE, issues |-> <<>>]

(* the locals of one call of process_task, before it starts *)
FreshLocals(w) ==
    /\ cur' = [cur EXCEPT ![w] = None]
    /\ attempt' = [attempt EXCEPT ![w] = 0]
    /\ plan' = [plan EXCEPT ![w] = NoPlan]
    /\ reviews' = [reviews EXCEPT ![w] = <<>>]
    /\ result' = [result EXCEPT ![w] = "none"]
    /\ trace' = [trace EXCEPT ![w] = <<>>]
    /\ task_agent_log' = [task_agent_log EXCEPT ![w] = <<>>]
    /\ review_feedback' = [review_feedback EXCEPT ![w] = NoFeedback]
    /\ issues' = [issues EXCEPT ![w] = <<>>]
    /\ fed' = [fed EXCEPT ![w] = <<>>]
    /\ task_status' = [task_status EXCEPT ![w] = ""]
    /\ written' = [written EXCEPT ![w] = <<>>]
    /\ writtenErr' = [writtenErr EXCEPT ![w] = ""]
    /\ raised' = [raised EXCEPT ![w] = FALSE]
    /\ code_output' = [code_output EXCEPT ![w] = <<>>]
    /\ test_result' = [test_result EXCEPT ![w] = "none"]
    /\ pr_info' = [pr_info EXCEPT ![w] = NoPr]
    /\ completion' = [completion EXCEPT ![w] = NoCompletion]
    /\ ops' = [ops EXCEPT ![w] = <<>>]

InitProcs ==
    /\ pc = [w \in Procs |-> "idle"]
    /\ cur = [w \in Procs |-> None]
    /\ attempt = [w \in Procs |-> 0]
    /\ plan = [w \in Procs |-> NoPlan]
    /\ reviews = [w \in Procs |-> <<>>]
    /\ result = [w \in Procs |-> "none"]
    /\ trace = [w \in Procs |-> <<>>]
    /\ written = [w \in Procs |-> <<>>]
    /\ writtenErr = [w \in Procs |-> ""]
    /\ raised = [w \in Procs |-> FALSE]
    /\ code_output = [w \in Procs |-> <<>>]
    /\ test_result = [w \in Procs |-> "none"]
    /\ pr_info = [w \in Procs |-> NoPr]
    /\ completion = [w \in Procs |-> NoCompletion]
    /\ ops = [w \in Procs |-> <<>>]
    /\ commit_sha = [t \in DOMAIN status |-> None]
    /\ files_changed = [t \in DOMAIN status |-> <<>>]
    /\ pr_url = [t \in DOMAIN status |-> None]
    /\ agent_log = [t \in DOMAIN status |-> <<>>]
    /\ events = [t \in DOMAIN status |-> <<>>]
    /\ task_agent_log = [w \in Procs |-> <<>>]
    /\ review_feedback = [w \in Procs |-> NoFeedback]
    /\ issues = [w \in Procs |-> <<>>]
    /\ fed = [w \in Procs |-> <<>>]
    /\ task_status = [w \in Procs |-> ""]
    /\ claims = [t \in DOMAIN status |-> 0]
    /\ calls = 0
    /\ manual = 0

(* the title create_task stored with a task *)
SomeTitle == "Add column X"

NoIngest == [tasks |-> <<>>, next |-> 0]
NoCycle == [inbox |-> "none", run |-> "none"]

(* no poll loop is running and the inbox file holds no entry *)
InitNoPoll ==
    /\ title = [t \in DOMAIN status |-> SomeTitle]
    /\ inbox = <<>>
    /\ loop = [w \in Procs |-> "off"]
    /\ ingest = [w \in Procs |-> NoIngest]
    /\ cycle = [w \in Procs |-> NoCycle]
    /\ enq = <<>>

(* get_next_task, the SELECT ... FOR UPDATE SKIP LOCKED: the first queued row *)
(* not locked by another transaction is locked and read.                      *)
GntSelect(w) ==
    /\ pc[w] = "gnt"
    /\ \E t \in TaskIds :
        /\ FirstClaimable(t)
        /\ lock' = [lock EXCEPT ![t] = w]
        /\ cur' = [cur EXCEPT ![w] = t]
        /\ task_status' = [task_status EXCEPT ![w] = status[t]]
    /\ pc' = [pc EXCEPT ![w] = "locked"]
    /\ UNCHANGED <<status, priority, created_at, review_attempts, error_message, spent>>
    /\ UNCHANGED <<attempt, plan, reviews, result, runGhost, queueGhost>>
    /\ UNCHANGED detail
    /\ UNCHANGED <<ledgerVars, pollVars>>
    /\ UNCHANGED <<review_feedback, issues, fed>>

(* get_next_task, no row fetched: return None *)
GntNone(w) ==
    /\ pc[w] = "gnt"
    /\ ~\E t \in TaskIds : FirstClaimable(t)
    /\ pc' = [pc EXCEPT ![w] = "idle"]
    /\ UNCHANGED <<storeVars, cur, attempt, plan, reviews, result, runGhost, queueGhost>>
    /\ UNCHANGED detail
    /\ UNCHANGED <<ledgerVars, pollVars>>
    /\ UNCHANGED handoffVars

(* get_next_task, UPDATE ... SET status = 'planning'; commit; return the row *)
GntCommit(w) ==
    /\ pc[w] = "locked"
    /\ status' = [status EXCEPT ![cur[w]] = "planning"]
    /\ lock' = [lock EXCEPT ![cur[w]] = None]
    /\ claims' = [claims EXCEPT ![cur[w]] = @ + 1]
    /\ pc' = [pc EXCEPT ![w] = "process"]
    /\ task_agent_log' = [task_agent_log EXCEPT ![w] = agent_log[cur[w]]]
    /\ UNCHANGED <<priority, created_at, review_attempts, error_message, spent>>
    /\ UNCHANGED <<cur, attempt, plan, reviews, result, runGhost, calls, n0, manual>>
    /\ UNCHANGED detail
    /\ UNCHANGED <<events, pollVars>>
    /\ UNCHANGED handoffVars

(* ----------------- concurrent callers of get_next_task ------------------- *)
(* A store holding any set of queued tasks (create_task leaves each one       *)
(* queued, with a priority and a creation time of its own).                   *)
InitQueue ==
    /\ status \in [1..NumQueued -> {"queued", "done"}]
    /\ priority \in [1..NumQueued -> Priorities]
    /\ trust_level = [t \in 1..NumQueued |-> DefaultTrust]
    /\ created_at \in {f \in [1..NumQueued -> 1..NumQueued] : \A t, u \in 1..NumQueued : f[t] = f[u] => t = u}
    /\ review_attempts = [t \in 1..NumQueued |-> 0]
    /\ error_message = [t \in 1..NumQueued |-> ""]
    /\ lock = [t \in 1..NumQueued |-> None]
    /\ spent = 0
    /\ n0 = Cardinality({t \in TaskIds : status[t] = "queued"})
    /\ InitProcs
    /\ InitNoPoll

QueueCall(w) ==
    /\ pc[w] = "idle"
    /\ calls < MaxCalls
    /\ calls' = calls + 1
    /\ pc' = [pc EXCEPT ![w] = "gnt"]
    /\ UNCHANGED <<storeVars, cur, attempt, plan, reviews, result, runGhost, claims, n0, manual>>
    /\ UNCHANGED detail
    /\ UNCHANGED <<ledgerVars, pollVars>>
    /\ UNCHANGED handoffVars

QueueReturn(w) ==
    /\ pc[w] = "process"
    /\ pc' = [pc EXCEPT ![w] = "idle"]
    /\ cur' = [cur EXCEPT ![w] = None]
    /\ UNCHANGED <<storeVars, attempt, plan, reviews, result, runGhost, queueGhost>>
    /\ UNCHANGED detail
    /\ UNCHANGED <<ledgerVars, pollVars>>
    /\ UNCHANGED handoffVars

NextQueue ==
    \E w \in Callers :
        \/ QueueCall(w)
        \/ GntSelect(w)
        \/ GntNone(w)
        \/ GntCommit(w)
        \/ QueueReturn(w)

SpecQueue == InitQueue /\ [][NextQueue]_vars

(* ------------------------- process_task (main.py) ------------------------ *)
ErrUnclearPlan == "Planner could not produce a clear plan. Task may be too vague."
ErrBudget == "Daily budget exhausted"
ErrReviewExhausted == "Failed devil's advocate review after " \o ToString(max_review_cycles) \o " attempts"
ErrTester == "Tester identified likely build/test failures"

(* str(e) of what a collaborator call raises *)
ServiceError == "ServiceError: completion call failed"
HostingError == "GithubException: source-hosting call failed"
StoreError == "OperationalError: task-store call failed"
(* the completion call gives up waiting for the service and raises *)
ErrTimeout == "APITimeoutError: Request timed out."

(* the positions of a worker inside the try block of process_task *)
PipelinePcs ==
    {"process", "planner", "plan_check", "budget", "coder", "to_review", "reviewer",
     "exhausted", "testing", "tester", "test_failed", "deploying", "commit", "pr", "finish"}

(* what the first call made at each position raises when it fails: the       *)
(* completion call of a phase, a source-hosting call, or else db.update_task *)
MayRaise(p) ==
    CASE p \in {"planner", "coder", "reviewer", "tester"} -> {ServiceError, ErrTimeout}
      [] p \in {"commit", "pr"} -> {HostingError}
      [] p = "plan_check" -> {HostingError}
      [] OTHER -> {StoreError}

(* db.update_task(task_id, status=s): blocks while the row is locked *)
SetStatus(w, s) ==
    /\ lock[cur[w]] = None
    /\ status' = [status EXCEPT ![cur[w]] = s]
    /\ written' = [written EXCEPT ![w] = Append(@, s)]

(* db.update_task(task_id, status="failed", error_message=msg); return False *)
FailWithoutReturn(w, msg) ==
    /\ SetStatus(w, "failed")
    /\ error_message' = [error_message EXCEPT ![cur[w]] = msg]
    /\ writtenErr' = [writtenErr EXCEPT ![w] = msg]
    /\ UNCHANGED <<result, pc>>

FailWithoutMessage(w, msg) ==
    /\ SetStatus(w, "failed")
    /\ error_message' = error_message
    /\ writtenErr' = [writtenErr EXCEPT ![w] = msg]
    /\ result' = [result EXCEPT ![w] = "False"]
    /\ pc' = [pc EXCEPT ![w] = "ended"]

Fail(w, msg) ==
    /\ SetStatus(w, "failed")
    /\ error_message' = [error_message EXCEPT ![cur[w]] = msg]
    /\ writtenErr' = [writtenErr EXCEPT ![w] = msg]
    /\ result' = [result EXCEPT ![w] = "False"]
    /\ pc' = [pc EXCEPT ![w] = "ended"]

(* db.log_event(..., cost_cents=c): the day's recorded spend grows by c *)
LogCostLatestOnly(c) ==
    /\ spent + c <= MaxSpent
    /\ spent' = c

LogCost(c) ==
    /\ spent + c <= MaxSpent
    /\ spent' = spent + c

(* for attempt in range(1, settings.max_review_cycles + 1): another iteration *)
LoopContinuesOffByOne(a) == a < max_review_cycles + 1

LoopContinues(a) == a < max_review_cycles

(* db.update_task(..., review_attempts=attempt) *)
ReviewAttemptsAccumulated(w) == review_attempts[cur[w]] + 1

ReviewAttemptsWritten(w) == attempt[w]

(* process_task entry and Phase 1: update_task(status="planning") *)
Start(w) ==
    /\ pc[w] = "process"
    /\ lock[cur[w]] = None
    /\ status' = [status EXCEPT ![cur[w]] = "planning"]
    /\ written' = [written EXCEPT ![w] = <<"planning">>]
    /\ pc' = [pc EXCEPT ![w] = "planner"]
    /\ UNCHANGED <<priority, created_at, review_attempts, error_message, lock, spent>>
    /\ UNCHANGED <<cur, attempt, plan, reviews, result, trace, writtenErr, raised, queueGhost>>
    /\ UNCHANGED detail
    /\ UNCHANGED <<ledgerVars, pollVars>>
    /\ UNCHANGED handoffVars

(* run_planner; update_task(plan=...); log_event(planner completed, cost) *)
Planner(w) ==
    /\ pc[w] = "planner"
    /\ lock[cur[w]] = None
    /\ \E p \in Plans : plan' = [plan EXCEPT ![w] = p]
    /\ trace' = [trace EXCEPT ![w] = Append(@, "planner")]
    /\ \E c \in Costs : LogCost(c)
    /\ pc' = [pc EXCEPT ![w] = "plan_check"]
    /\ UNCHANGED <<status, priority, created_at, review_attempts, error_message, lock>>
    /\ UNCHANGED <<cur, attempt, reviews, result, written, writtenErr, raised, queueGhost>>
    /\ UNCHANGED detail
    /\ UNCHANGED <<ledgerVars, pollVars>>
    /\ UNCHANGED handoffVars

(* if plan.get("complexity") == "unknown" or not plan.get("steps") *)
UnclearOnlyWhenBoth(p) == p.complexity = "unknown" /\ p.steps = 0

Unclear(p) == p.complexity = "unknown" \/ p.steps = 0

PlanUnclear(w) ==
    /\ pc[w] = "plan_check"
    /\ Unclear(plan[w])
    /\ Fail(w, ErrUnclearPlan)
    /\ UNCHANGED <<priority, created_at, review_attempts, lock, spent>>
    /\ UNCHANGED <<cur, attempt, plan, reviews, trace, raised, queueGhost>>
    /\ UNCHANGED detail
    /\ UNCHANGED <<ledgerVars, pollVars>>
    /\ UNCHANGED handoffVars

(* create_branch; update_task(branch_name=..., status="coding"); attempt 1 *)
PlanOk(w) ==
    /\ pc[w] = "plan_check"
    /\ ~Unclear(plan[w])
    /\ trace' = [trace EXCEPT ![w] = Append(@, "create_branch")]
    /\ SetStatus(w, "coding")
    /\ attempt' = [attempt EXCEPT ![w] = 1]
    /\ pc' = [pc EXCEPT ![w] = "budget"]
    /\ UNCHANGED <<priority, created_at, review_attempts, error_message, lock, spent>>
    /\ UNCHANGED <<cur, plan, reviews, result, writtenErr, raised, queueGhost>>
    /\ UNCHANGED detail
    /\ UNCHANGED <<ledgerVars, pollVars>>
    /\ UNCHANGED handoffVars

(* if not _check_budget(): update_task(status="failed", ...); return False *)
BudgetGateSkipped(w) ==
    /\ pc[w] = "budget"
    /\ ~check_budget
    /\ pc' = [pc EXCEPT ![w] = "coder"]
    /\ UNCHANGED <<storeVars, cur, attempt, plan, reviews, result, runGhost, queueGhost>>
    /\ UNCHANGED detail
    /\ UNCHANGED <<ledgerVars, pollVars>>
    /\ UNCHANGED handoffVars

BudgetClosed(w) ==
    /\ pc[w] = "budget"
    /\ ~check_budget
    /\ Fail(w, ErrBudget)
    /\ UNCHANGED <<priority, created_at, review_attempts, lock, spent>>
    /\ UNCHANGED <<cur, attempt, plan, reviews, trace, raised, queueGhost>>
    /\ UNCHANGED detail
    /\ UNCHANGED <<ledgerVars, pollVars>>
    /\ UNCHANGED handoffVars

BudgetOpen(w) ==
    /\ pc[w] = "budget"
    /\ check_budget
    /\ pc' = [pc EXCEPT ![w] = "coder"]
    /\ UNCHANGED <<storeVars, cur, attempt, plan, reviews, result, runGhost, queueGhost>>
    /\ UNCHANGED detail
    /\ UNCHANGED <<ledgerVars, pollVars>>
    /\ UNCHANGED handoffVars

(* run_coder; update_task(code_diff=...); log_event(coder completed, cost) *)
Coder(w) ==
    /\ pc[w] = "coder"
    /\ lock[cur[w]] = None
    /\ trace' = [trace EXCEPT ![w] = Append(@, "coder")]
    /\ \E c \in Costs : LogCost(c)
    /\ pc' = [pc EXCEPT ![w] = "to_review"]
    /\ UNCHANGED <<status, priority, created_at, review_attempts, error_message, lock>>
    /\ UNCHANGED <<cur, attempt, plan, reviews, result, written, writtenErr, raised, queueGhost>>
    /\ UNCHANGED detail
    /\ UNCHANGED <<ledgerVars, pollVars>>
    /\ UNCHANGED handoffVars

(* update_task(status="reviewing", review_attempts=attempt) *)
ToReview(w) ==
    /\ pc[w] = "to_review"
    /\ SetStatus(w, "reviewing")
    /\ review_attempts' = [review_attempts EXCEPT ![cur[w]] = ReviewAttemptsWritten(w)]
    /\ pc' = [pc EXCEPT ![w] = "reviewer"]
    /\ UNCHANGED <<priority, created_at, error_message, lock, spent>>
    /\ UNCHANGED <<cur, attempt, plan, reviews, result, trace, writtenErr, raised, queueGhost>>
    /\ UNCHANGED detail
    /\ UNCHANGED <<ledgerVars, pollVars>>
    /\ UNCHANGED handoffVars

(* run_devils_advocate; update_task(review_notes=...); log_event(cost);      *)
(* approve: break; reject: next attempt, or leave the loop not approved      *)
Reviewer(w) ==
    /\ pc[w] = "reviewer"
    /\ lock[cur[w]] = None
    /\ \E c \in Costs : LogCost(c)
    /\ trace' = [trace EXCEPT ![w] = Append(@, "reviewer")]
    /\ \E d \in {"approve", "reject"} :
        /\ reviews' = [reviews EXCEPT ![w] = Append(@, d)]
        /\ IF d = "approve"
           THEN pc' = [pc EXCEPT ![w] = "testing"] /\ UNCHANGED attempt
           ELSE IF LoopContinues(attempt[w])
                THEN /\ pc' = [pc EXCEPT ![w] = "budget"]
                     /\ attempt' = [attempt EXCEPT ![w] = @ + 1]
                ELSE pc' = [pc EXCEPT ![w] = "exhausted"] /\ UNCHANGED attempt
    /\ UNCHANGED <<status, priority, created_at, review_attempts, error_message, lock>>
    /\ UNCHANGED <<cur, plan, result, written, writtenErr, raised, queueGhost>>
    /\ UNCHANGED detail
    /\ UNCHANGED <<ledgerVars, pollVars>>
    /\ UNCHANGED handoffVars

(* if not approved: update_task(status="failed", error_message=...) *)
Exhausted(w) ==
    /\ pc[w] = "exhausted"
    /\ Fail(w, ErrReviewExhausted)
    /\ UNCHANGED <<priority, created_at, review_attempts, lock, spent>>
    /\ UNCHANGED <<cur, attempt, plan, reviews, trace, raised, queueGhost>>
    /\ UNCHANGED detail
    /\ UNCHANGED <<ledgerVars, pollVars>>
    /\ UNCHANGED handoffVars

(* Phase 4: update_task(status="testing"); log_event(tester started) *)
Testing(w) ==
    /\ pc[w] = "testing"
    /\ SetStatus(w, "testing")
    /\ pc' = [pc EXCEPT ![w] = "tester"]
    /\ UNCHANGED <<priority, created_at, review_attempts, error_message, lock, spent>>
    /\ UNCHANGED <<cur, attempt, plan, reviews, result, trace, writtenErr, raised, queueGhost>>
    /\ UNCHANGED detail
    /\ UNCHANGED <<ledgerVars, pollVars>>
    /\ UNCHANGED handoffVars

(* run_tester; update_task(test_output=...); log_event(cost) *)
Tester(w) ==
    /\ pc[w] = "tester"
    /\ lock[cur[w]] = None
    /\ \E c \in Costs : LogCost(c)
    /\ trace' = [trace EXCEPT ![w] = Append(@, "tester")]
    /\ \E v \in {"pass", "warning", "fail"} :
        pc' = [pc EXCEPT ![w] = IF v = "fail" THEN "test_failed" ELSE "deploying"]
    /\ UNCHANGED <<status, priority, created_at, review_attempts, error_message, lock>>
    /\ UNCHANGED <<cur, attempt, plan, reviews, result, written, writtenErr, raised, queueGhost>>
    /\ UNCHANGED detail
    /\ UNCHANGED <<ledgerVars, pollVars>>
    /\ UNCHANGED handoffVars

(* if test_result.get("verdict") == "fail": update_task(status="failed", ...) *)
TestFailed(w) ==
    /\ pc[w] = "test_failed"
    /\ Fail(w, ErrTester)
    /\ UNCHANGED <<priority, created_at, review_attempts, lock, spent>>
    /\ UNCHANGED <<cur, attempt, plan, reviews, trace, raised, queueGhost>>
    /\ UNCHANGED detail
    /\ UNCHANGED <<ledgerVars, pollVars>>
    /\ UNCHANGED handoffVars

(* Phase 5: update_task(status="deploying") *)
Deploying(w) ==
    /\ pc[w] = "deploying"
    /\ SetStatus(w, "deploying")
    /\ pc' = [pc EXCEPT ![w] = "commit"]
    /\ UNCHANGED <<priority, created_at, review_attempts, error_message, lock, spent>>
    /\ UNCHANGED <<cur, attempt, plan, reviews, result, trace, writtenErr, raised, queueGhost>>
    /\ UNCHANGED detail
    /\ UNCHANGED <<ledgerVars, pollVars>>
    /\ UNCHANGED handoffVars

(* commit_file / delete_file per file change; update_task(commit_sha, files_changed) *)
Commit(w) ==
    /\ pc[w] = "commit"
    /\ lock[cur[w]] = None
    /\ trace' = [trace EXCEPT ![w] = Append(@, "write_files")]
    /\ pc' = [pc EXCEPT ![w] = "pr"]
    /\ UNCHANGED <<storeVars, cur, attempt, plan, reviews, result, written, writtenErr, raised, queueGhost>>
    /\ UNCHANGED detail
    /\ UNCHANGED <<ledgerVars, pollVars>>
    /\ UNCHANGED handoffVars

(* create_pull_request; update_task(pr_url=...); log_event(deployer completed) *)
PullRequest(w) ==
    /\ pc[w] = "pr"
    /\ lock[cur[w]] = None
    /\ trace' = [trace EXCEPT ![w] = Append(@, "create_pull_request")]
    /\ pc' = [pc EXCEPT ![w] = "finish"]
    /\ UNCHANGED <<storeVars, cur, attempt, plan, reviews, result, written, writtenErr, raised, queueGhost>>
    /\ UNCHANGED detail
    /\ UNCHANGED <<ledgerVars, pollVars>>
    /\ UNCHANGED handoffVars

(* update_task(status="done", completed_at, actual_duration_seconds); return True *)
Done(w) ==
    /\ pc[w] = "finish"
    /\ SetStatus(w, "done")
    /\ result' = [result EXCEPT ![w] = "True"]
    /\ pc' = [pc EXCEPT ![w] = "ended"]
    /\ UNCHANGED <<priority, created_at, review_attempts, error_message, lock, spent>>
    /\ UNCHANGED <<cur, attempt, plan, reviews, trace, writtenErr, raised, queueGhost>>
    /\ UNCHANGED detail
    /\ UNCHANGED <<ledgerVars, pollVars>>
    /\ UNCHANGED handoffVars

(* a call of the current step raises; except Exception as e:                  *)
(* update_task(status="failed", error_message=str(e), ...); return False      *)
Except(w) ==
    /\ pc[w] \in PipelinePcs
    /\ \E e \in (IF pc[w] = "plan_check" /\ Unclear(plan[w]) THEN {StoreError} ELSE MayRaise(pc[w])) :
        Fail(w, e)
    /\ raised' = [raised EXCEPT ![w] = TRUE]
    /\ UNCHANGED <<priority, created_at, review_attempts, lock, spent>>
    /\ UNCHANGED <<cur, attempt, plan, reviews, trace, queueGhost>>
    /\ UNCHANGED detail
    /\ UNCHANGED <<ledgerVars, pollVars>>
    /\ UNCHANGED handoffVars

(* a call raises and the handler's own update_task raises as well: the error  *)
(* leaves process_task with the task as it was                                *)
ExceptRaises(w) ==
    /\ pc[w] \in PipelinePcs
    /\ raised' = [raised EXCEPT ![w] = TRUE]
    /\ result' = [result EXCEPT ![w] = "raised"]
    /\ pc' = [pc EXCEPT ![w] = "ended"]
    /\ UNCHANGED <<storeVars, cur, attempt, plan, reviews, trace, written, writtenErr, queueGhost>>
    /\ UNCHANGED detail
    /\ UNCHANGED <<ledgerVars, pollVars>>
    /\ UNCHANGED handoffVars

(* process_task has returned (or raised) to run_once / run_specific *)
Return(w) ==
    /\ pc[w] = "ended"
    /\ pc' = [pc EXCEPT ![w] = "idle"]
    /\ FreshLocals(w)
    /\ UNCHANGED <<storeVars, queueGhost>>
    /\ UNCHANGED deliveryVars
    /\ UNCHANGED <<events, pollVars>>

(* ------------------- the phase wrappers (agents.py) ------------------------ *)
(* A completion text, as the pieces the wrappers tell apart: a code fence     *)
(* (three backquotes), a newline, the text of a JSON object, the text of a    *)
(* JSON array, other text.                                                     *)
Fence == "fence"
Newline == "newline"
JsonObject == "{}"
JsonArray == "[]"
Prose == "text"

(* the completion texts the service returns in the model *)
Completions ==
    {<<JsonObject>>,
     <<Fence, Newline, JsonObject, Newline, Fence>>,
     <<Prose>>,
     <<Fence, Newline, Prose, Newline, Fence>>,
     <<Fence, JsonObject, Fence>>,
     <<JsonArray>>}

(* str.strip(): leading and trailing whitespace removed *)
RECURSIVE LStrip(_)
LStrip(s) == IF s # <<>> /\ Head(s) = Newline THEN LStrip(Tail(s)) ELSE s

RECURSIVE RStrip(_)
RStrip(s) == IF s # <<>> /\ s[Len(s)] = Newline THEN RStrip(SubSeq(s, 1, Len(s) - 1)) ELSE s

Strip(s) == RStrip(LStrip(s))

(* clean.startswith(fence) *)
StartsWithFence(s) == s # <<>> /\ Head(s) = Fence

Positions(s, tok) == {i \in 1..Len(s) : s[i] = tok}

Lowest(S) == CHOOSE i \in S : \A j \in S : i <= j

Highest(S) == CHOOSE i \in S : \A j \in S : i >= j

(* clean.split(newline, 1): one part when the text holds no newline *)
SplitFirstNewline(s) ==
    IF Positions(s, Newline) = {}
    THEN <<s>>
    ELSE <<SubSeq(s, 1, Lowest(Positions(s, Newline)) - 1),
           SubSeq(s, Lowest(Positions(s, Newline)) + 1, Len(s))>>

(* clean.rsplit(fence, 1)[0] *)
BeforeLastFence(s) ==
    IF Positions(s, Fence) = {} THEN s ELSE SubSeq(s, 1, Highest(Positions(s, Fence)) - 1)

(* json.loads: a dict, a value that is no dict, or json.JSONDecodeError *)
json_loads(s) ==
    IF Strip(s) = <<JsonObject>> THEN "dict"
    ELSE IF Strip(s) = <<JsonArray>> THEN "list"
    ELSE "JSONDecodeError"

(* the try block of each wrapper: strip, drop the fence lines, json.loads;    *)
(* split(...)[1] raises IndexError when there is one part only                *)
Parse(text) ==
    IF StartsWithFence(Strip(text))
    THEN IF Len(SplitFirstNewline(Strip(text))) < 2
         THEN "IndexError"
         ELSE json_loads(BeforeLastFence(SplitFirstNewline(Strip(text))[2]))
    ELSE json_loads(Strip(text))

(* what a wrapper hands to process_task: the parsed dict, the phase's default *)
(* from its except json.JSONDecodeError branch, a value that is no dict, or   *)
(* the IndexError it lets through                                              *)
WrapperOutcome(text) ==
    CASE Parse(text) = "dict" -> "parsed"
      [] Parse(text) = "JSONDecodeError" -> "default"
      [] Parse(text) = "list" -> "not_dict"
      [] OTHER -> "raised"

ErrIndex == "list index out of range"
ErrAttribute == "'list' object has no attribute 'get'"

(* the except json.JSONDecodeError defaults *)
PlannerDefault == [complexity |-> "unknown", steps |-> 0]
CoderDefault == <<>>
ReviewerDefault == "approve"
TesterDefault == "warning"

(* the artifact's "files": file changes with a path and an action *)
MaxFiles == 2
Paths == {"a.py", "b.py"}
FileActions == {"modify", "delete"}
FileChanges == [path : Paths, action : FileActions]
Artifacts == UNION {[1..n -> FileChanges] : n \in 0..MaxFiles}

(* an exception reaches the handler of process_task, which marks the task     *)
(* failed with str(e) and returns False                                        *)
Raise(w, msg) ==
    /\ Fail(w, msg)
    /\ raised' = [raised EXCEPT ![w] = TRUE]

(* the run goes on to its next step *)
Continue(w, next) ==
    /\ pc' = [pc EXCEPT ![w] = next]
    /\ UNCHANGED <<status, error_message, written, writtenErr, result, raised>>

Received(w, agent, text) ==
    completion' = [completion EXCEPT ![w] =
        [agent |-> agent, text |-> text, outcome |-> WrapperOutcome(text)]]

(* ----------------------- the ledger and the agent_log ---------------------- *)
(* a row of agent_events: log_event(task_id, agent_name, event_type, ...);     *)
(* accounted when the call passes the invocation's tokens_used and cost_cents, *)
(* output_summary kept where it is the text of an error                        *)
Event(agent_name, event_type, accounted, output_summary) ==
    [agent_name |-> agent_name, event_type |-> event_type,
     accounted |-> accounted, output_summary |-> output_summary]

(* log_event(task_id, agent, "started") *)
Started(agent_name) == Event(agent_name, "started", FALSE, "")

(* the handler's log_event(task_id, "orchestrator", "failed", str(e)) *)
HandlerEvent(msg) == Event("orchestrator", "failed", FALSE, msg)

(* the name of the phase at a position of process_task *)
AgentAt(p) == IF p = "reviewer" THEN "devils_advocate" ELSE p

Phases == {"planner", "coder", "reviewer", "tester"}

(* the rows the calls of log_event insert, in their order *)
Logged(t, rows) == events' = [events EXCEPT ![t] = @ \o rows]

(* task["agent_log"] = _append_log(task, entry);                              *)
(* db.update_task(task_id, agent_log=task["agent_log"]): the stored log is     *)
(* replaced by the list the run holds                                          *)
AppendLog(w, entry) ==
    /\ task_agent_log' = [task_agent_log EXCEPT ![w] = Append(@, entry)]
    /\ agent_log' = [agent_log EXCEPT ![cur[w]] = Append(task_agent_log[w], entry)]

NoLog == UNCHANGED <<task_agent_log, agent_log>>

(* the completion call of a phase raised e: _call_claude lets it through, and *)
(* so does the wrapper                                                         *)
CallRaised(w, e) ==
    completion' = IF pc[w] \in Phases
                  THEN [completion EXCEPT ![w] = [agent |-> pc[w], text |-> <<>>, outcome |-> e]]
                  ELSE completion

(* a call of the current step raises, with the ledger: the phase's "started"   *)
(* row is in when its wrapper raises, the handler adds its "failed" row        *)
RunExcept(w) ==
    /\ pc[w] \in PipelinePcs
    /\ \E e \in (IF pc[w] = "plan_check" /\ Unclear(plan[w]) THEN {StoreError} ELSE MayRaise(pc[w])) :
        /\ Fail(w, e)
        /\ Logged(cur[w], (IF pc[w] \in Phases THEN <<Started(AgentAt(pc[w]))>> ELSE <<>>)
                            \o <<HandlerEvent(e)>>)
        /\ CallRaised(w, e)
    /\ raised' = [raised EXCEPT ![w] = TRUE]
    /\ UNCHANGED <<priority, created_at, review_attempts, lock, spent>>
    /\ UNCHANGED <<cur, attempt, plan, reviews, trace, queueGhost>>
    /\ UNCHANGED <<deliveryVars, code_output, test_result, pr_info, ops>>
    /\ UNCHANGED <<task_agent_log, pollVars>>
    /\ UNCHANGED handoffVars

(* the handler's update_task raises as well: its log_event is not reached *)
RunExceptRaises(w) ==
    /\ pc[w] \in PipelinePcs
    /\ raised' = [raised EXCEPT ![w] = TRUE]
    /\ result' = [result EXCEPT ![w] = "raised"]
    /\ pc' = [pc EXCEPT ![w] = "ended"]
    /\ Logged(cur[w], IF pc[w] \in Phases THEN <<Started(AgentAt(pc[w]))>> ELSE <<>>)
    /\ \E e \in MayRaise(pc[w]) : CallRaised(w, e)
    /\ UNCHANGED <<storeVars, cur, attempt, plan, reviews, trace, written, writtenErr, queueGhost>>
    /\ UNCHANGED <<deliveryVars, code_output, test_result, pr_info, ops>>
    /\ UNCHANGED <<task_agent_log, pollVars>>
    /\ UNCHANGED handoffVars

(* run_planner and what process_task does with its result, main.py:72-93 *)
RunPlanner(w) ==
    /\ pc[w] = "planner"
    /\ lock[cur[w]] = None
    /\ trace' = [trace EXCEPT ![w] = Append(@, "planner")]
    /\ \E text \in Completions :
        /\ Received(w, "planner", text)
        /\ CASE WrapperOutcome(text) = "raised" ->
                  /\ Raise(w, ErrIndex) /\ UNCHANGED <<plan, spent>>
                  /\ Logged(cur[w], <<Started("planner"), HandlerEvent(ErrIndex)>>) /\ NoLog
             [] WrapperOutcome(text) = "not_dict" ->
                  /\ Raise(w, ErrAttribute) /\ UNCHANGED <<plan, spent>>
                  /\ Logged(cur[w], <<Started("planner"), HandlerEvent(ErrAttribute)>>) /\ NoLog
             [] WrapperOutcome(text) = "default" ->
                  /\ plan' = [plan EXCEPT ![w] = PlannerDefault]
                  /\ \E c \in Costs : LogCost(c)
                  /\ AppendLog(w, [agent |-> "planner", action |-> "plan_created"])
                  /\ Logged(cur[w], <<Started("planner"), Event("planner", "completed", TRUE, "")>>)
                  /\ Continue(w, "plan_check")
             [] OTHER ->
                  /\ \E p \in Plans : plan' = [plan EXCEPT ![w] = p]
                  /\ \E c \in Costs : LogCost(c)
                  /\ AppendLog(w, [agent |-> "planner", action |-> "plan_created"])
                  /\ Logged(cur[w], <<Started("planner"), Event("planner", "completed", TRUE, "")>>)
                  /\ Continue(w, "plan_check")
    /\ UNCHANGED <<priority, created_at, review_attempts, lock>>
    /\ UNCHANGED <<cur, attempt, reviews, queueGhost>>
    /\ UNCHANGED <<trust_level, commit_sha, files_changed, pr_url>>
    /\ UNCHANGED <<code_output, test_result, pr_info, ops>>
    /\ UNCHANGED pollVars
    /\ UNCHANGED handoffVars

(* run_coder and what process_task does with its result, main.py:121-139 *)
RunCoder(w) ==
    /\ pc[w] = "coder"
    /\ lock[cur[w]] = None
    /\ trace' = [trace EXCEPT ![w] = Append(@, "coder")]
    /\ \E text \in Completions :
        /\ Received(w, "coder", text)
        /\ CASE WrapperOutcome(text) = "raised" ->
                  /\ Raise(w, ErrIndex) /\ UNCHANGED <<code_output, spent>>
                  /\ Logged(cur[w], <<Started("coder"), HandlerEvent(ErrIndex)>>) /\ NoLog
             [] WrapperOutcome(text) = "not_dict" ->
                  /\ Raise(w, ErrAttribute) /\ UNCHANGED <<code_output, spent>>
                  /\ Logged(cur[w], <<Started("coder"), HandlerEvent(ErrAttribute)>>) /\ NoLog
             [] WrapperOutcome(text) = "default" ->
                  /\ code_output' = [code_output EXCEPT ![w] = CoderDefault]
                  /\ \E c \in Costs : LogCost(c)
                  /\ AppendLog(w, [agent |-> "coder", action |-> "code_written"])
                  /\ Logged(cur[w], <<Started("coder"), Event("coder", "completed", TRUE, "")>>)
                  /\ Continue(w, "to_review")
             [] OTHER ->
                  /\ \E files \in Artifacts : code_output' = [code_output EXCEPT ![w] = files]
                  /\ \E c \in Costs : LogCost(c)
                  /\ AppendLog(w, [agent |-> "coder", action |-> "code_written"])
                  /\ Logged(cur[w], <<Started("coder"), Event("coder", "completed", TRUE, "")>>)
                  /\ Continue(w, "to_review")
    /\ UNCHANGED <<priority, created_at, review_attempts, lock>>
    /\ UNCHANGED <<cur, attempt, plan, reviews, queueGhost>>
    /\ UNCHANGED <<trust_level, commit_sha, files_changed, pr_url>>
    /\ UNCHANGED <<test_result, pr_info, ops>>
    /\ UNCHANGED pollVars
    /\ fed' = [fed EXCEPT ![w] = Append(@, review_feedback[w])]
    /\ UNCHANGED <<review_feedback, issues, task_status>>

(* review.get("issues", []) of a rejection *)
IssueLists == {<<"issue a">>, <<"issue b">>}

(* json.dumps(issues, indent=2): the text of the list *)
json_dumps(iss) == [given |-> TRUE, issues |-> iss]

(* review_feedback = json.dumps(review.get("issues", []), indent=2) *)
FeedbackAccumulated(w, iss) == json_dumps(review_feedback[w].issues \o iss)

FeedbackFor(w, iss) == json_dumps(iss)

(* if review.get("decision") == "approve" *)
ApprovesAnything(decision) == TRUE

Approves(decision) == decision = "approve"

(* after the decision: break to testing, the next attempt, or out of the loop *)
AfterReviewWithoutBreak(w, decision) ==
    IF LoopContinues(attempt[w])
    THEN Continue(w, "budget") /\ attempt' = [attempt EXCEPT ![w] = @ + 1]
    ELSE Continue(w, IF Approves(decision) THEN "testing" ELSE "exhausted") /\ UNCHANGED attempt

AfterReview(w, decision) ==
    IF Approves(decision)
    THEN Continue(w, "testing") /\ UNCHANGED attempt
    ELSE IF LoopContinues(attempt[w])
         THEN Continue(w, "budget") /\ attempt' = [attempt EXCEPT ![w] = @ + 1]
         ELSE Continue(w, "exhausted") /\ UNCHANGED attempt

(* run_devils_advocate and what process_task does with its result,            *)
(* main.py:144-179                                                             *)
RunReviewer(w) ==
    /\ pc[w] = "reviewer"
    /\ lock[cur[w]] = None
    /\ trace' = [trace EXCEPT ![w] = Append(@, "reviewer")]
    /\ \E text \in Completions :
        /\ Received(w, "reviewer", text)
        /\ CASE WrapperOutcome(text) = "raised" ->
                  /\ Raise(w, ErrIndex) /\ UNCHANGED <<reviews, attempt, spent>>
                  /\ Logged(cur[w], <<Started("devils_advocate"), HandlerEvent(ErrIndex)>>) /\ NoLog
                  /\ UNCHANGED <<review_feedback, issues>>
             [] WrapperOutcome(text) = "not_dict" ->
                  /\ Raise(w, ErrAttribute) /\ UNCHANGED <<reviews, attempt, spent>>
                  /\ Logged(cur[w], <<Started("devils_advocate"), HandlerEvent(ErrAttribute)>>) /\ NoLog
                  /\ UNCHANGED <<review_feedback, issues>>
             [] OTHER ->
                  \E d \in (IF WrapperOutcome(text) = "default"
                            THEN {ReviewerDefault} ELSE {"approve", "reject"}) :
                      /\ reviews' = [reviews EXCEPT ![w] = Append(@, d)]
                      /\ \E iss \in (IF Approves(d) THEN {<<>>} ELSE IssueLists) :
                            /\ issues' = [issues EXCEPT ![w] = Append(@, iss)]
                            /\ review_feedback' = [review_feedback EXCEPT ![w] =
                                   IF Approves(d) THEN @ ELSE FeedbackFor(w, iss)]
                      /\ \E c \in Costs : LogCost(c)
                      /\ AppendLog(w, [agent |-> "devils_advocate", action |-> "review_complete"])
                      /\ Logged(cur[w], <<Started("devils_advocate"),
                                Event("devils_advocate",
                                      IF d = "approve" THEN "approved" ELSE "rejected", TRUE, "")>>)
                      /\ AfterReview(w, d)
    /\ UNCHANGED <<priority, created_at, review_attempts, lock>>
    /\ UNCHANGED <<cur, plan, queueGhost>>
    /\ UNCHANGED <<trust_level, commit_sha, files_changed, pr_url>>
    /\ UNCHANGED <<code_output, test_result, pr_info, ops>>
    /\ UNCHANGED pollVars
    /\ UNCHANGED <<fed, task_status>>

(* if test_result.get("verdict") == "fail" *)
BlocksUnlessPass(verdict) == verdict # "pass"

Blocks(verdict) == verdict = "fail"

(* run_tester and what process_task does with its result, main.py:193-206:   *)
(* no agent_log entry is written for the tester                               *)
RunTester(w) ==
    /\ pc[w] = "tester"
    /\ lock[cur[w]] = None
    /\ trace' = [trace EXCEPT ![w] = Append(@, "tester")]
    /\ \E text \in Completions :
        /\ Received(w, "tester", text)
        /\ CASE WrapperOutcome(text) = "raised" ->
                  /\ Raise(w, ErrIndex) /\ UNCHANGED <<test_result, spent>>
                  /\ Logged(cur[w], <<Started("tester"), HandlerEvent(ErrIndex)>>)
             [] WrapperOutcome(text) = "not_dict" ->
                  /\ Raise(w, ErrAttribute) /\ UNCHANGED <<test_result, spent>>
                  /\ Logged(cur[w], <<Started("tester"), HandlerEvent(ErrAttribute)>>)
             [] OTHER ->
                  \E v \in (IF WrapperOutcome(text) = "default"
                            THEN {TesterDefault} ELSE {"pass", "warning", "fail"}) :
                      /\ test_result' = [test_result EXCEPT ![w] = v]
                      /\ \E c \in Costs : LogCost(c)
                      /\ Logged(cur[w], <<Started("tester"),
                                Event("tester", IF v # "fail" THEN "completed" ELSE "failed", TRUE, "")>>)
                      /\ Continue(w, IF Blocks(v) THEN "test_failed" ELSE "deploying")
    /\ UNCHANGED <<priority, created_at, review_attempts, lock>>
    /\ UNCHANGED <<cur, attempt, plan, reviews, queueGhost>>
    /\ UNCHANGED <<deliveryVars, code_output, pr_info, ops>>
    /\ UNCHANGED <<task_agent_log, pollVars>>
    /\ UNCHANGED handoffVars

(* ----------------------- the deploy phase (main.py) ------------------------ *)
(* if action == "delete": delete_file(...) else: commit_file(...) *)
OperationAlwaysWrite(action) == "write"

Operation(action) == IF action = "delete" THEN "delete" ELSE "write"

(* one iteration of for file_change in code_output.get("files", []): the       *)
(* operation returns the branch's new revision, last_sha; files_changed grows  *)
DeployFile(w) ==
    /\ pc[w] = "commit"
    /\ Len(ops[w]) < Len(code_output[w])
    /\ ops' = [ops EXCEPT ![w] = Append(@,
            [op |-> Operation(code_output[w][Len(ops[w]) + 1].action),
             path |-> code_output[w][Len(ops[w]) + 1].path,
             sha |-> Len(ops[w]) + 1])]
    /\ trace' = [trace EXCEPT ![w] = Append(@, "write_files")]
    /\ UNCHANGED <<storeVars, procVars, written, writtenErr, raised, queueGhost>>
    /\ UNCHANGED <<deliveryVars, code_output, test_result, pr_info, completion>>
    /\ UNCHANGED <<ledgerVars, pollVars>>
    /\ UNCHANGED handoffVars

(* last_sha, None when the loop body never ran *)
last_sha(w) == IF ops[w] = <<>> THEN None ELSE ops[w][Len(ops[w])].sha

(* db.update_task(task_id, commit_sha=last_sha, files_changed=files_changed) *)
RecordCommit(w) ==
    /\ pc[w] = "commit"
    /\ Len(ops[w]) = Len(code_output[w])
    /\ lock[cur[w]] = None
    /\ commit_sha' = [commit_sha EXCEPT ![cur[w]] = last_sha(w)]
    /\ files_changed' = [files_changed EXCEPT ![cur[w]] = [i \in 1..Len(ops[w]) |-> ops[w][i].path]]
    /\ pc' = [pc EXCEPT ![w] = "pr"]
    /\ UNCHANGED <<storeVars, cur, attempt, plan, reviews, result, runGhost, queueGhost>>
    /\ UNCHANGED <<trust_level, pr_url, agent_log, detailVars>>
    /\ UNCHANGED <<ledgerVars, pollVars>>
    /\ UNCHANGED handoffVars

(* auto_merge = trust == "full_auto" *)
AutoMergeUnlessPlanOnly(trust) == trust # "plan_only"

AutoMerge(trust) == trust = "full_auto"

(* the html_url of the pull request opened from the task's branch *)
PrUrl(t) == t

(* pr.merge cannot reach the hosting service: no GithubException, the error   *)
(* leaves create_pull_request                                                  *)
TransportError == "ConnectionError: source-hosting service unreachable"

(* create_pull_request: result["merged"] is set only under auto_merge, True    *)
(* when pr.merge succeeds and False when it raises GithubException; any other  *)
(* exception of pr.merge is not caught                                         *)
MergeOutcomesUncaught(auto_merge) ==
    IF auto_merge THEN {"true", "raises", "unreachable"} ELSE {"absent"}

MergeOutcomes(auto_merge) ==
    IF auto_merge THEN {"true", "false", "unreachable"} ELSE {"absent"}

(* create_pull_request(..., auto_merge); update_task(pr_url); the deployer's   *)
(* agent_log entry with auto_merged = pr_info.get("merged", False)             *)
CreatePullRequest(w) ==
    /\ pc[w] = "pr"
    /\ lock[cur[w]] = None
    /\ trace' = [trace EXCEPT ![w] = Append(@, "create_pull_request")]
    /\ \E m \in MergeOutcomes(AutoMerge(trust_level[cur[w]])) :
        IF m \in {"raises", "unreachable"}
        THEN /\ Raise(w, IF m = "raises" THEN HostingError ELSE TransportError)
             /\ Logged(cur[w], <<HandlerEvent(IF m = "raises" THEN HostingError ELSE TransportError)>>)
             /\ UNCHANGED <<pr_info, pr_url, agent_log, task_agent_log>>
        ELSE /\ pr_info' = [pr_info EXCEPT ![w] =
                    [url |-> PrUrl(cur[w]), auto_merge |-> AutoMerge(trust_level[cur[w]]), merged |-> m]]
             /\ pr_url' = [pr_url EXCEPT ![cur[w]] = PrUrl(cur[w])]
             /\ AppendLog(w, [agent |-> "deployer", pr_url |-> PrUrl(cur[w]), auto_merged |-> (m = "true")])
             /\ Logged(cur[w], <<Event("deployer", "completed", FALSE, "")>>)
             /\ Continue(w, "finish")
    /\ UNCHANGED <<priority, created_at, review_attempts, lock, spent>>
    /\ UNCHANGED <<cur, attempt, plan, reviews, queueGhost>>
    /\ UNCHANGED <<trust_level, commit_sha, files_changed>>
    /\ UNCHANGED <<code_output, test_result, completion, ops>>
    /\ UNCHANGED pollVars
    /\ UNCHANGED handoffVars


(* ------------------------ run_once, run_specific -------------------------- *)
(* run_once: if not _check_budget(): return False; task = db.get_next_task() *)
RunOnceNoGate(w) ==
    /\ pc[w] = "idle"
    /\ pc' = [pc EXCEPT ![w] = "gnt"]
    /\ UNCHANGED <<storeVars, cur, attempt, plan, reviews, result, runGhost, queueGhost>>
    /\ UNCHANGED detail
    /\ UNCHANGED <<ledgerVars, pollVars>>
    /\ UNCHANGED handoffVars

RunOnce(w) ==
    /\ pc[w] = "idle"
    /\ pc' = [pc EXCEPT ![w] = IF check_budget THEN "gnt" ELSE "idle"]
    /\ UNCHANGED <<storeVars, cur, attempt, plan, reviews, result, runGhost, queueGhost>>
    /\ UNCHANGED detail
    /\ UNCHANGED <<ledgerVars, pollVars>>
    /\ UNCHANGED handoffVars

(* run_specific: task = db.get_task(id); not found: return False *)
RsGet(o) ==
    /\ pc[o] = "idle"
    /\ manual < MaxManual
    /\ manual' = manual + 1
    /\ \E id \in TaskIds \cup {Cardinality(TaskIds) + 1} :
        IF id \in TaskIds
        THEN /\ cur' = [cur EXCEPT ![o] = id] /\ pc' = [pc EXCEPT ![o] = "rs_reset"]
             /\ task_agent_log' = [task_agent_log EXCEPT ![o] = agent_log[id]]
             /\ task_status' = [task_status EXCEPT ![o] = status[id]]
        ELSE UNCHANGED <<cur, pc, task_agent_log, task_status>>
    /\ UNCHANGED <<storeVars, attempt, plan, reviews, result, runGhost, claims, calls, n0>>
    /\ UNCHANGED detail
    /\ UNCHANGED <<events, pollVars>>
    /\ UNCHANGED <<review_feedback, issues, fed>>

(* run_specific: db.update_task(id, status="queued"); task["status"] = "queued" *)
RsReset(o) ==
    /\ pc[o] = "rs_reset"
    /\ lock[cur[o]] = None
    /\ status' = [status EXCEPT ![cur[o]] = "queued"]
    /\ pc' = [pc EXCEPT ![o] = "rs_plan"]
    /\ task_status' = [task_status EXCEPT ![o] = "queued"]
    /\ UNCHANGED <<priority, created_at, review_attempts, error_message, lock, spent>>
    /\ UNCHANGED <<cur, attempt, plan, reviews, result, runGhost, queueGhost>>
    /\ UNCHANGED detail
    /\ UNCHANGED <<ledgerVars, pollVars>>
    /\ UNCHANGED <<review_feedback, issues, fed>>

(* run_specific: db.update_task(id, status="planning", started_at=...) *)
RsPlan(o) ==
    /\ pc[o] = "rs_plan"
    /\ lock[cur[o]] = None
    /\ status' = [status EXCEPT ![cur[o]] = "planning"]
    /\ pc' = [pc EXCEPT ![o] = "process"]
    /\ UNCHANGED <<priority, created_at, review_attempts, error_message, lock, spent>>
    /\ UNCHANGED <<cur, attempt, plan, reviews, result, runGhost, queueGhost>>
    /\ UNCHANGED detail
    /\ UNCHANGED <<ledgerVars, pollVars>>
    /\ UNCHANGED handoffVars

(* ------------------------------ the system -------------------------------- *)
(* The store after create_task enqueued NumTasks tasks with default priority. *)
Init ==
    /\ status = [t \in 1..NumTasks |-> "queued"]
    /\ priority = [t \in 1..NumTasks |-> DefaultPriority]
    /\ trust_level = [t \in 1..NumTasks |-> DefaultTrust]
    /\ created_at = [t \in 1..NumTasks |-> t]
    /\ review_attempts = [t \in 1..NumTasks |-> 0]
    /\ error_message = [t \in 1..NumTasks |-> ""]
    /\ lock = [t \in 1..NumTasks |-> None]
    /\ spent = 0
    /\ n0 = NumTasks
    /\ InitProcs
    /\ InitNoPoll

process_task(w) ==
    \/ Start(w)
    \/ Planner(w)
    \/ PlanUnclear(w)
    \/ PlanOk(w)
    \/ BudgetClosed(w)
    \/ BudgetOpen(w)
    \/ Coder(w)
    \/ ToReview(w)
    \/ Reviewer(w)
    \/ Exhausted(w)
    \/ Testing(w)
    \/ Tester(w)
    \/ TestFailed(w)
    \/ Deploying(w)
    \/ Commit(w)
    \/ PullRequest(w)
    \/ Done(w)
    \/ Except(w)
    \/ ExceptRaises(w)
    \/ Return(w)

run_once(w) ==
    \/ RunOnce(w)
    \/ GntSelect(w)
    \/ GntNone(w)
    \/ GntCommit(w)

run_specific(o) ==
    \/ RsGet(o)
    \/ RsReset(o)
    \/ RsPlan(o)

Next ==
    \/ \E w \in Workers : run_once(w) \/ process_task(w)
    \/ run_specific(Operator) \/ process_task(Operator)

Spec == Init /\ [][Next]_vars

(* ------------- several poll workers on one store and one budget ----------- *)
(* The store after create_task enqueued NumQueued tasks; each caller of       *)
(* get_next_task is a poll worker running run_once.                           *)
InitWorkers ==
    /\ status = [t \in 1..NumQueued |-> "queued"]
    /\ priority = [t \in 1..NumQueued |-> DefaultPriority]
    /\ trust_level = [t \in 1..NumQueued |-> DefaultTrust]
    /\ created_at = [t \in 1..NumQueued |-> t]
    /\ review_attempts = [t \in 1..NumQueued |-> 0]
    /\ error_message = [t \in 1..NumQueued |-> ""]
    /\ lock = [t \in 1..NumQueued |-> None]
    /\ spent = 0
    /\ n0 = NumQueued
    /\ InitProcs
    /\ InitNoPoll

NextWorkers == \E w \in Callers : run_once(w) \/ process_task(w)

SpecWorkers == InitWorkers /\ [][NextWorkers]_vars

(* ----------------- one poll worker, the pipeline in detail ---------------- *)
(* The store after create_task enqueued NumTasks tasks of any trust level.    *)
InitRun ==
    /\ status = [t \in 1..NumTasks |-> "queued"]
    /\ priority = [t \in 1..NumTasks |-> DefaultPriority]
    /\ trust_level \in [1..NumTasks -> TrustLevels]
    /\ created_at = [t \in 1..NumTasks |-> t]
    /\ review_attempts = [t \in 1..NumTasks |-> 0]
    /\ error_message = [t \in 1..NumTasks |-> ""]
    /\ lock = [t \in 1..NumTasks |-> None]
    /\ spent = 0
    /\ n0 = NumTasks
    /\ InitProcs
    /\ InitNoPoll

process_task_run(w) ==
    \/ Start(w)
    \/ RunPlanner(w)
    \/ PlanUnclear(w)
    \/ PlanOk(w)
    \/ BudgetClosed(w)
    \/ BudgetOpen(w)
    \/ RunCoder(w)
    \/ ToReview(w)
    \/ RunReviewer(w)
    \/ Exhausted(w)
    \/ Testing(w)
    \/ RunTester(w)
    \/ TestFailed(w)
    \/ Deploying(w)
    \/ DeployFile(w)
    \/ RecordCommit(w)
    \/ CreatePullRequest(w)
    \/ Done(w)
    \/ RunExcept(w)
    \/ RunExceptRaises(w)
    \/ Return(w)

NextRun == \E w \in Workers : run_once(w) \/ process_task_run(w)

SpecRun == InitRun /\ [][NextRun]_vars

(* --------------- the poll loop of main, with inbox ingestion -------------- *)
MaxRows == 2
MaxInbox == 2

(* the entries of tasks/inbox.json: a task spec with a title, and one without *)
Entries == {[id |-> "A", title |-> SomeTitle], [id |-> "untitled", title |-> ""]}

(* if not isinstance(t, dict) or not t.get("title"): skipped *)
ValidEntry(t) == t.title # ""

EntryIds == {t.id : t \in {u \in Entries : ValidEntry(u)}}

(* the inbox file: missing (404), no JSON, or a JSON list of entries *)
InboxList(q) == [kind |-> "list", entries |-> q]
InboxFiles ==
    {[kind |-> "absent", entries |-> <<>>], [kind |-> "not_json", entries |-> <<>>]}
    \cup {InboxList(q) : q \in {q \in UNION {[1..n -> Entries] : n \in 0..MaxInbox} :
                                  \A i, j \in DOMAIN q : q[i] = q[j] => i = j}}

(* db.create_task(title, ...): INSERT INTO agent_tasks ... RETURNING *; the    *)
(* row is queued, with the defaults of trust_level and priority; the title is  *)
(* stored as given                                                             *)
create_task(ttl) ==
    /\ Len(status) < MaxRows
    /\ status' = Append(status, "queued")
    /\ title' = Append(title, ttl)
    /\ priority' = Append(priority, DefaultPriority)
    /\ trust_level' = Append(trust_level, DefaultTrust)
    /\ created_at' = Append(created_at, Len(status) + 1)
    /\ review_attempts' = Append(review_attempts, 0)
    /\ error_message' = Append(error_message, "")
    /\ lock' = Append(lock, None)
    /\ commit_sha' = Append(commit_sha, None)
    /\ files_changed' = Append(files_changed, <<>>)
    /\ pr_url' = Append(pr_url, None)
    /\ agent_log' = Append(agent_log, <<>>)
    /\ events' = Append(events, <<>>)
    /\ claims' = Append(claims, 0)

(* the titles a client sends; title.strip() of the intake server *)
Blank == " "
Titles == {"", Blank, SomeTitle}
StripTitle(ttl) == IF ttl = Blank THEN "" ELSE ttl

(* a client of the task store calls db.create_task(title=ttl, ...) *)
Enqueue(ttl) ==
    /\ create_task(ttl)
    /\ UNCHANGED <<spent, procVars, runGhost, calls, n0, manual>>
    /\ UNCHANGED detailVars
    /\ UNCHANGED <<task_agent_log, inbox, loop, ingest, cycle, enq>>
    /\ UNCHANGED handoffVars

(* IntakeHandler.do_POST /task: title = body.get("title", "").strip();         *)
(* if not title: 400; else db.create_task(title=title, ...)                    *)
IntakePost(ttl) ==
    /\ StripTitle(ttl) # ""
    /\ create_task(StripTitle(ttl))
    /\ UNCHANGED <<spent, procVars, runGhost, calls, n0, manual>>
    /\ UNCHANGED detailVars
    /\ UNCHANGED <<task_agent_log, inbox, loop, ingest, cycle, enq>>
    /\ UNCHANGED handoffVars

(* where the loop goes when check_inbox is over, whatever its outcome: errors  *)
(* are caught in check_inbox and again in main, then task_processed = run_once() *)
AfterCheckInboxFatal(outcome) == IF outcome = "failed" THEN "exited" ELSE "run_once"

AfterCheckInbox(outcome) == "run_once"

(* check_inbox is over with an outcome: nothing to load, loaded and cleared,   *)
(* or failed                                                                   *)
InboxDone(w, outcome) ==
    /\ loop' = [loop EXCEPT ![w] = AfterCheckInbox(outcome)]
    /\ cycle' = [cycle EXCEPT ![w] = [inbox |-> outcome, run |-> "none"]]
    /\ ingest' = [ingest EXCEPT ![w] = NoIngest]

(* check_inbox: get_contents and the parse of the file, inbox.py:46-66 *)
CheckInbox(w) ==
    /\ loop[w] = "inbox"
    /\ IF inbox.kind = "list" /\ inbox.entries # <<>>
       THEN /\ ingest' = [ingest EXCEPT ![w] = [tasks |-> inbox.entries, next |-> 1]]
            /\ loop' = [loop EXCEPT ![w] = "ingest"]
            /\ cycle' = [cycle EXCEPT ![w] = NoCycle]
       ELSE InboxDone(w, "nothing")
    /\ UNCHANGED <<storeVars, procVars, runGhost, queueGhost, detail, ledgerVars>>
    /\ UNCHANGED <<title, inbox, enq>>
    /\ UNCHANGED handoffVars

(* one iteration of for t in tasks: an entry without title is skipped, the     *)
(* others are inserted                                                         *)
InboxEntry(w) ==
    /\ loop[w] = "ingest"
    /\ ingest[w].next <= Len(ingest[w].tasks)
    /\ LET t == ingest[w].tasks[ingest[w].next]
       IN IF ValidEntry(t)
          THEN /\ create_task(t.title)
               /\ enq' = [enq EXCEPT ![t.id] = @ + 1]
          ELSE /\ UNCHANGED <<status, title, priority, trust_level, created_at, review_attempts>>
               /\ UNCHANGED <<error_message, lock, commit_sha, files_changed, pr_url>>
               /\ UNCHANGED <<agent_log, events, claims, enq>>
    /\ ingest' = [ingest EXCEPT ![w].next = @ + 1]
    /\ UNCHANGED <<spent, procVars, runGhost, calls, n0, manual>>
    /\ UNCHANGED detailVars
    /\ UNCHANGED <<task_agent_log, inbox, loop, cycle>>
    /\ UNCHANGED handoffVars

(* repo.update_file(content="[]", sha=content.sha): the inbox is cleared;      *)
(* return queued                                                               *)
InboxClear(w) ==
    /\ loop[w] = "ingest"
    /\ ingest[w].next > Len(ingest[w].tasks)
    /\ inbox' = InboxList(<<>>)
    /\ InboxDone(w, "loaded")
    /\ UNCHANGED <<storeVars, procVars, runGhost, queueGhost, detail, ledgerVars>>
    /\ UNCHANGED <<title, enq>>
    /\ UNCHANGED handoffVars

(* a call of check_inbox raises (get_contents, db.create_task of the entry at  *)
(* hand, update_file): except Exception: warning; return 0                     *)
InboxFails(w) ==
    /\ loop[w] \in {"inbox", "ingest"}
    /\ loop[w] = "ingest" /\ ingest[w].next <= Len(ingest[w].tasks) =>
          ValidEntry(ingest[w].tasks[ingest[w].next])
    /\ InboxDone(w, "failed")
    /\ UNCHANGED <<storeVars, procVars, runGhost, queueGhost, detail, ledgerVars>>
    /\ UNCHANGED <<title, inbox, enq>>
    /\ UNCHANGED handoffVars

(* task_processed = run_once(): the budget gate *)
PollRunOnce(w) ==
    /\ loop[w] = "run_once"
    /\ pc[w] = "idle"
    /\ IF check_budget
       THEN /\ pc' = [pc EXCEPT ![w] = "gnt"]
            /\ loop' = [loop EXCEPT ![w] = "running"]
            /\ UNCHANGED cycle
       ELSE /\ loop' = [loop EXCEPT ![w] = "sleep"]
            /\ cycle' = [cycle EXCEPT ![w].run = "budget_closed"]
            /\ UNCHANGED pc
    /\ UNCHANGED <<storeVars, cur, attempt, plan, reviews, result, runGhost, queueGhost>>
    /\ UNCHANGED <<detail, ledgerVars>>
    /\ UNCHANGED <<title, inbox, ingest, enq>>
    /\ UNCHANGED handoffVars

(* get_daily_cost or get_next_task raises: except Exception in main *)
PollRunOnceRaises(w) ==
    /\ loop[w] = "run_once"
    /\ pc[w] = "idle"
    /\ loop' = [loop EXCEPT ![w] = "sleep"]
    /\ cycle' = [cycle EXCEPT ![w].run = "error"]
    /\ UNCHANGED <<storeVars, procVars, runGhost, queueGhost, detail, ledgerVars>>
    /\ UNCHANGED <<title, inbox, ingest, enq>>
    /\ UNCHANGED handoffVars

(* get_next_task returned None: run_once returns False *)
PollGntNone(w) ==
    /\ loop[w] = "running"
    /\ pc[w] = "gnt"
    /\ ~\E t \in TaskIds : FirstClaimable(t)
    /\ pc' = [pc EXCEPT ![w] = "idle"]
    /\ loop' = [loop EXCEPT ![w] = "sleep"]
    /\ cycle' = [cycle EXCEPT ![w].run = "no_task"]
    /\ UNCHANGED <<storeVars, cur, attempt, plan, reviews, result, runGhost, queueGhost>>
    /\ UNCHANGED <<detail, ledgerVars>>
    /\ UNCHANGED <<title, inbox, ingest, enq>>
    /\ UNCHANGED handoffVars

(* if task_processed: continue, with run_once() = process_task(task) *)
Continues(res) == res = "True"

(* process_task is over: run_once returns its value, or its error reaches the  *)
(* except Exception of main; continue or fall through to time.sleep            *)
PollReturn(w) ==
    /\ loop[w] = "running"
    /\ pc[w] = "ended"
    /\ pc' = [pc EXCEPT ![w] = "idle"]
    /\ FreshLocals(w)
    /\ loop' = [loop EXCEPT ![w] = IF Continues(result[w]) THEN "inbox" ELSE "sleep"]
    /\ cycle' = [cycle EXCEPT ![w].run = IF result[w] = "raised" THEN "error" ELSE "processed"]
    /\ UNCHANGED <<storeVars, queueGhost>>
    /\ UNCHANGED deliveryVars
    /\ UNCHANGED <<events, title, inbox, ingest, enq>>

(* time.sleep(settings.orchestrator_poll_interval_seconds) is over: the next   *)
(* cycle                                                                       *)
Sleep(w) ==
    /\ loop[w] = "sleep"
    /\ loop' = [loop EXCEPT ![w] = "inbox"]
    /\ UNCHANGED <<storeVars, procVars, runGhost, queueGhost, detail, ledgerVars>>
    /\ UNCHANGED <<title, inbox, ingest, cycle, enq>>
    /\ UNCHANGED handoffVars

(* KeyboardInterrupt: while get_next_task holds a row the transaction rolls    *)
(* back; the loop breaks (or the signal ends the process in time.sleep)        *)
Signal(w) ==
    /\ loop[w] \notin {"off", "exited"}
    /\ loop' = [loop EXCEPT ![w] = "exited"]
    /\ cycle' = [cycle EXCEPT ![w].run = "cancelled"]
    /\ lock' = [t \in DOMAIN lock |-> IF lock[t] = w THEN None ELSE lock[t]]
    /\ pc' = [pc EXCEPT ![w] = "idle"]
    /\ FreshLocals(w)
    /\ ingest' = [ingest EXCEPT ![w] = NoIngest]
    /\ UNCHANGED <<status, priority, created_at, review_attempts, error_message, spent>>
    /\ UNCHANGED queueGhost
    /\ UNCHANGED deliveryVars
    /\ UNCHANGED <<events, title, inbox, enq>>

(* The store holds no task, the inbox file is in any of its states, and each   *)
(* poll worker is about to start its first cycle.                              *)
InitPoll ==
    /\ status = <<>>
    /\ title = <<>>
    /\ priority = <<>>
    /\ trust_level = <<>>
    /\ created_at = <<>>
    /\ review_attempts = <<>>
    /\ error_message = <<>>
    /\ lock = <<>>
    /\ spent = 0
    /\ n0 = 0
    /\ InitProcs
    /\ inbox \in InboxFiles
    /\ loop = [w \in Procs |-> IF w \in Workers THEN "inbox" ELSE "off"]
    /\ ingest = [w \in Procs |-> NoIngest]
    /\ cycle = [w \in Procs |-> NoCycle]
    /\ enq = [i \in EntryIds |-> 0]

check_inbox(w) ==
    \/ CheckInbox(w)
    \/ InboxEntry(w)
    \/ InboxClear(w)
    \/ InboxFails(w)

poll_run_once(w) ==
    \/ PollRunOnce(w)
    \/ PollRunOnceRaises(w)
    \/ GntSelect(w)
    \/ PollGntNone(w)
    \/ GntCommit(w)
    \/ Start(w)
    \/ Planner(w)
    \/ PlanUnclear(w)
    \/ PlanOk(w)
    \/ BudgetClosed(w)
    \/ BudgetOpen(w)
    \/ Coder(w)
    \/ ToReview(w)
    \/ Reviewer(w)
    \/ Exhausted(w)
    \/ Testing(w)
    \/ Tester(w)
    \/ TestFailed(w)
    \/ Deploying(w)
    \/ Commit(w)
    \/ PullRequest(w)
    \/ Done(w)
    \/ Except(w)
    \/ ExceptRaises(w)
    \/ PollReturn(w)

NextPoll == \E w \in Workers : check_inbox(w) \/ poll_run_once(w) \/ Sleep(w) \/ Signal(w)

SpecPoll == InitPoll /\ [][NextPoll]_vars

(* ------------------- the entry points that enqueue a task ------------------ *)
(* clients of db.create_task, the intake server's POST /task, and one call of *)
(* check_inbox by each poll worker                                             *)
NextEnqueue ==
    \/ \E ttl \in Titles : Enqueue(ttl) \/ IntakePost(ttl)
    \/ \E w \in Workers : check_inbox(w)

SpecEnqueue == InitPoll /\ [][NextEnqueue]_vars

(* ------------------------------- claims ----------------------------------- *)
Min(a, b) == IF a <= b THEN a ELSE b

Last(q) == q[Len(q)]

(* C1: however the callers of get_next_task interleave, no task is returned   *)
(* to two callers (each returned task was claimed once and is in progress),   *)
(* and once every caller has returned, exactly min(N, number of calls) of the *)
(* N tasks that were queued have been claimed.                                *)
C1_ExactlyOnceDequeue ==
    /\ \A t \in TaskIds : claims[t] <= 1
    /\ \A w, v \in Callers : (w # v /\ cur[w] # None /\ cur[v] # None) => cur[w] # cur[v]
    /\ (\A w \in Callers : pc[w] = "idle") =>
        Cardinality({t \in TaskIds : claims[t] = 1}) = Min(n0, calls)

(* two callers inside get_next_task at once, each holding a row of its own,   *)
(* one of them already returned its task                                      *)
C1_Witness ==
    /\ pc[1] = "process" /\ pc[2] = "locked"
    /\ cur[1] # cur[2]
    /\ n0 = 2

(* the claim's order, stated on the priorities themselves *)
HigherPriority ==
    {<<"urgent", "high">>, <<"urgent", "medium">>, <<"urgent", "low">>,
     <<"high", "medium">>, <<"high", "low">>, <<"medium", "low">>}

NoConcurrentCaller(w) == \A v \in Callers \ {w} : pc[v] \notin {"gnt", "locked"}

(* C3: a get_next_task call made with no concurrent caller selects the queued *)
(* task that is first by priority (urgent, high, medium, low) and, among      *)
(* equal priorities, by earlier creation time.                                *)
C3_DequeueOrder ==
    \A w \in Callers :
        (pc[w] = "locked" /\ NoConcurrentCaller(w)) =>
            /\ status[cur[w]] = "queued"
            /\ \A u \in TaskIds \ {cur[w]} :
                status[u] = "queued" =>
                    \/ <<priority[cur[w]], priority[u]>> \in HigherPriority
                    \/ priority[cur[w]] = priority[u] /\ created_at[cur[w]] < created_at[u]

(* the selected task wins by priority over a queued task created earlier *)
C3_Witness ==
    \E w \in Callers :
        /\ pc[w] = "locked" /\ NoConcurrentCaller(w)
        /\ \E u \in TaskIds \ {cur[w]} :
            /\ status[u] = "queued"
            /\ created_at[u] < created_at[cur[w]]
            /\ <<priority[cur[w]], priority[u]>> \in HigherPriority

(* the calls of one collaborator made so far by the run of worker w *)
Invocations(w, what) == Cardinality({i \in 1..Len(trace[w]) : trace[w][i] = what})

(* worker w is inside process_task *)
InPipeline(w) == pc[w] \in PipelinePcs \ {"process"}

(* C2: at any moment at most one worker instance is running process_task for  *)
(* a given task, whatever the interleaving of run_once and run_specific.      *)
C2_AtMostOneInstance ==
    \A w, v \in Procs :
        (w # v /\ InPipeline(w) /\ InPipeline(v)) => cur[w] # cur[v]

AllRejected(q) == \A i \in 1..Len(q) : q[i] = "reject"

(* C4 as stated: the coder runs at most max_review_cycles times, and a run in *)
(* which the coder ran, no call raised and no attempt was approved ends with  *)
(* status failed and the review-cycles-exhausted message.                      *)
C4_NoApprovalMeansExhausted ==
    \A w \in Procs :
        /\ Invocations(w, "coder") <= max_review_cycles
        /\ (pc[w] = "ended" /\ ~raised[w] /\ Invocations(w, "coder") >= 1 /\ AllRejected(reviews[w])) =>
            (Last(written[w]) = "failed" /\ writtenErr[w] = ErrReviewExhausted)

(* C4 (amended): the coder runs at most max_review_cycles times in a run, and *)
(* a run in which the reviewer rejected all max_review_cycles attempts and no *)
(* call raised ends with status failed and the review-cycles-exhausted        *)
(* message.                                                                    *)
C4_ReviewLoopBounded ==
    \A w \in Procs :
        /\ Invocations(w, "coder") <= max_review_cycles
        /\ (pc[w] = "ended" /\ ~raised[w] /\ Len(reviews[w]) = max_review_cycles /\ AllRejected(reviews[w])) =>
            (Last(written[w]) = "failed" /\ writtenErr[w] = ErrReviewExhausted)

C4_Witness ==
    \E w \in Procs :
        /\ pc[w] = "ended" /\ ~raised[w]
        /\ Len(reviews[w]) = max_review_cycles /\ AllRejected(reviews[w])
        /\ Invocations(w, "coder") = max_review_cycles

(* C5: the stored review_attempts of every task never exceeds                 *)
(* max_review_cycles, also across manual re-runs.                             *)
C5_ReviewAttemptsBounded == \A t \in TaskIds : review_attempts[t] <= max_review_cycles

(* a manual re-run of a task the poll worker had processed before reaches the *)
(* last review attempt                                                         *)
C5_Witness ==
    /\ pc[Operator] = "reviewer"
    /\ claims[cur[Operator]] >= 1
    /\ \A w \in Workers : pc[w] = "idle"
    /\ review_attempts[cur[Operator]] = max_review_cycles

(* C6: a run in which a call raised ends with the task failed and the error   *)
(* text as its error_message.                                                  *)
C6_RaiseEndsFailed ==
    \A w \in Procs :
        (pc[w] = "ended" /\ raised[w]) =>
            /\ status[cur[w]] = "failed"
            /\ error_message[cur[w]] \in {ServiceError, HostingError, StoreError}

(* the stored fields of a task *)
TaskRec(t) == <<status[t], priority[t], created_at[t], review_attempts[t], error_message[t]>>

(* C7: once a task is done or failed no step changes any of its fields,       *)
(* except run_specific's reset of its status to queued.                       *)
C7_TerminalFrozen ==
    [][\A t \in TaskIds :
        status[t] \in Terminal =>
            \/ TaskRec(t)' = TaskRec(t)
            \/ pc[Operator] = "rs_reset" /\ cur[Operator] = t /\ status'[t] = "queued"]_vars

(* the pipeline order of the status values *)
StageOf(s) ==
    CASE s = "planning" -> 1
      [] s = "coding" -> 2
      [] s = "reviewing" -> 3
      [] s = "testing" -> 4
      [] s = "deploying" -> 5
      [] s = "done" -> 6
      [] OTHER -> 0

(* C8: the status values one run writes never move backward in planning <     *)
(* coding < reviewing < testing < deploying < done, except reviewing ->       *)
(* coding; failed may follow anything, nothing follows done or failed.        *)
C8_StatusMonotonic ==
    \A w \in Procs :
        \A i \in 1..(Len(written[w]) - 1) :
            /\ written[w][i] \notin Terminal
            /\ \/ written[w][i + 1] = "failed"
               \/ StageOf(written[w][i + 1]) >= StageOf(written[w][i])
               \/ written[w][i] = "reviewing" /\ written[w][i + 1] = "coding"

(* a run through two rejected attempts and every phase to done *)
C8_Witness ==
    \E w \in Procs :
        written[w] = <<"planning", "coding", "reviewing", "reviewing", "reviewing",
                       "testing", "deploying", "done">>

(* C9: the coder is only ever invoked while the status the run last wrote is  *)
(* coding: after a rejection the status goes back to coding first.            *)
C9_CoderRunsInCoding ==
    \A w \in Procs : pc[w] = "coder" => Last(written[w]) = "coding"

(* C10: when the plan has no steps or complexity unknown, the coder, reviewer *)
(* and tester are never invoked and no branch, file write or change request   *)
(* is made in that run, and (no call raising) the run ends right after        *)
(* planning with status failed and the unclear-plan message.                  *)
C10_UnclearPlanFailsEarly ==
    \A w \in Procs :
        (plan[w] # NoPlan /\ (plan[w].steps = 0 \/ plan[w].complexity = "unknown")) =>
            /\ trace[w] = <<"planner">>
            /\ (pc[w] = "ended" /\ ~raised[w]) =>
                /\ written[w] = <<"planning", "failed">>
                /\ writtenErr[w] = ErrUnclearPlan

(* a run ended on a plan that has steps but complexity unknown *)
C10_Witness ==
    \E w \in Procs :
        /\ pc[w] = "ended" /\ ~raised[w]
        /\ plan[w].complexity = "unknown" /\ plan[w].steps > 0
        /\ status[cur[w]] = "failed"

(* C11: when the day's recorded cost is at or above daily_budget_cents as a   *)
(* poll cycle starts, run_once returns False without calling get_next_task:   *)
(* the worker stays idle, holds no task, and a queued task that changes       *)
(* status in that step was changed by another process.                        *)
C11_ClosedGateNoClaim ==
    [][\A w \in Workers :
        (pc[w] = "idle" /\ spent >= daily_budget_cents) =>
            /\ pc'[w] = "idle" /\ cur'[w] = None
            /\ \A t \in TaskIds :
                (status[t] = "queued" /\ status'[t] # "queued") =>
                    \E v \in Procs \ {w} : pc'[v] # pc[v]]_vars

(* a poll cycle starts with the budget spent while a task is queued *)
C11_Witness ==
    \E w \in Workers :
        /\ pc[w] = "idle" /\ spent >= daily_budget_cents
        /\ \E t \in TaskIds : status[t] = "queued"

DeliveryCalls == {"coder", "reviewer", "tester", "write_files"}

(* C12 as stated: once the recorded cost is at or above daily_budget_cents no *)
(* run invokes its next phase (coder, reviewer, tester or deploy): no such    *)
(* call is added to a run's calls in a step taken with the gate closed.       *)
C12_ClosedGateStopsEveryPhase ==
    [][\A w \in Procs :
        (spent >= daily_budget_cents /\ Len(trace'[w]) > Len(trace[w])) =>
            Last(trace'[w]) \notin DeliveryCalls]_vars

(* C12 (amended): a run that reaches the gate check of a review-loop attempt  *)
(* with the recorded cost at or above daily_budget_cents does not invoke the  *)
(* coder: unless the check itself raises, its next step writes status failed  *)
(* with the budget message and makes no further call.                         *)
C12_ClosedGateStopsCoder ==
    [][\A w \in Procs :
        (pc[w] = "budget" /\ spent >= daily_budget_cents /\ pc'[w] # pc[w] /\ ~raised'[w]) =>
            /\ pc'[w] = "ended"
            /\ status'[cur[w]] = "failed" /\ error_message'[cur[w]] = ErrBudget
            /\ trace'[w] = trace[w]]_vars

(* a run stopped by the gate before its second attempt *)
C12_Witness ==
    \E w \in Procs :
        /\ pc[w] = "ended" /\ ~raised[w]
        /\ writtenErr[w] = ErrBudget
        /\ Invocations(w, "coder") = 1 /\ reviews[w] = <<"reject">>

(* the malformed completion texts: no JSON at all, JSON inside code fences,   *)
(* a code fence with no newline after it, valid JSON that is not an object    *)
Malformed ==
    {<<Prose>>,
     <<Fence, Newline, Prose, Newline, Fence>>,
     <<Fence, Newline, JsonObject, Newline, Fence>>,
     <<Fence, JsonObject, Fence>>,
     <<JsonArray>>}

(* C13: for each phase and every malformed completion text the wrapper does   *)
(* not raise and hands back the phase's safe default (or the object it found  *)
(* inside the fences), and process_task goes on from it instead of taking its *)
(* exception path.                                                             *)
C13_MalformedYieldsDefault ==
    \A w \in Procs :
        completion[w].text \in Malformed =>
            /\ completion[w].outcome \in {"default", "parsed"}
            /\ writtenErr[w] \notin {ErrIndex, ErrAttribute}

(* texts no wrapper turns into a JSON value *)
Unparseable == {<<Prose>>, <<Fence, Newline, Prose, Newline, Fence>>, <<Fence, JsonObject, Fence>>}

(* C14: an unparseable reviewer response counts as an approval, so that the   *)
(* review loop ends on that attempt and the run goes on to testing; an        *)
(* unparseable planner response gives the empty plan, the coder is never      *)
(* invoked and the run ends with status failed.                                *)
C14_UnparseableDefaults ==
    \A w \in Procs :
        /\ (completion[w].agent = "reviewer" /\ completion[w].text \in Unparseable) =>
            /\ reviews[w] # <<>> /\ Last(reviews[w]) = "approve"
            /\ Len(reviews[w]) = Invocations(w, "reviewer")
            /\ ~raised[w] => pc[w] \in {"testing", "tester"}
            /\ writtenErr[w] \notin {ErrIndex, ErrAttribute}
        /\ (completion[w].agent = "planner" /\ completion[w].text \in Unparseable) =>
            /\ plan[w] = PlannerDefault
            /\ Invocations(w, "coder") = 0
            /\ (pc[w] = "ended" /\ ~raised[w]) => status[cur[w]] = "failed"

(* C15: a completion call that times out in a phase is answered with the      *)
(* phase's safe default, as a malformed response is; it never ends the run    *)
(* with the task failed on the timeout.                                        *)
C15_TimeoutUsesDefault ==
    \A w \in Procs : pc[w] = "ended" => writtenErr[w] # ErrTimeout

Delivered(w) ==
    \/ ops[w] # <<>>
    \/ pr_info[w] # NoPr
    \/ Invocations(w, "write_files") + Invocations(w, "create_pull_request") > 0

(* C16: after an approved review a tester verdict of fail ends the run with   *)
(* status failed and the tester message, with no file write, delete or change *)
(* request; a verdict of pass or warning moves the task to deploying (unless  *)
(* a call raises).                                                             *)
C16_VerdictDecides ==
    \A w \in Procs :
        /\ test_result[w] # "none" => Last(reviews[w]) = "approve"
        /\ test_result[w] = "fail" =>
            /\ ~Delivered(w)
            /\ pc[w] \in {"test_failed", "ended"}
            /\ "deploying" \notin {written[w][i] : i \in 1..Len(written[w])}
            /\ (pc[w] = "ended" /\ ~raised[w]) =>
                (status[cur[w]] = "failed" /\ writtenErr[w] = ErrTester)
        /\ (test_result[w] \in {"pass", "warning"} /\ ~raised[w]) =>
            /\ pc[w] \in {"deploying", "commit", "pr", "finish", "ended"}
            /\ pc[w] # "deploying" => "deploying" \in {written[w][i] : i \in 1..Len(written[w])}

(* a run ended by the tester's verdict fail *)
C16_Witness ==
    \E w \in Procs :
        /\ test_result[w] = "fail" /\ pc[w] = "ended" /\ ~raised[w]
        /\ status[cur[w]] = "failed"

(* C17: a run performs a file write, a file delete or a change-request        *)
(* creation only if its reviewer approved an attempt and its tester's verdict *)
(* was not fail; a run whose attempts are all rejected delivers nothing.      *)
C17_NoDeliveryUnlessApproved ==
    \A w \in Procs :
        /\ Delivered(w) =>
            /\ \E i \in 1..Len(reviews[w]) : reviews[w][i] = "approve"
            /\ test_result[w] \in {"pass", "warning"}
        /\ AllRejected(reviews[w]) => ~Delivered(w)

(* files written after two rejections and an approval *)
C17_Witness ==
    \E w \in Procs :
        /\ ops[w] # <<>> /\ pr_info[w] # NoPr
        /\ reviews[w] = <<"reject", "reject", "approve">>

(* C18: the change request is created with automatic integration requested    *)
(* exactly when the task's trust level is full_auto; for preview_only and     *)
(* plan_only tasks it is opened and no merge is attempted or logged.          *)
C18_AutoMergeOnlyFullAuto ==
    \A w \in Procs :
        pr_info[w] # NoPr =>
            /\ pr_info[w].auto_merge <=> trust_level[cur[w]] = "full_auto"
            /\ trust_level[cur[w]] \in {"preview_only", "plan_only"} =>
                /\ pr_info[w].merged = "absent"
                /\ \A i \in 1..Len(agent_log[cur[w]]) :
                       agent_log[cur[w]][i].agent = "deployer" => ~agent_log[cur[w]][i].auto_merged

(* a change request opened for a preview_only task *)
C18_Witness ==
    \E w \in Procs :
        /\ pr_info[w] # NoPr /\ pr_info[w].url = pr_url[cur[w]]
        /\ trust_level[cur[w]] = "preview_only"

CommitRecorded(w) ==
    \/ pc[w] \in {"pr", "finish"}
    \/ pc[w] = "ended" /\ Invocations(w, "create_pull_request") > 0

(* C20: the delivery operations of a run are issued one per file change in    *)
(* the artifact's order, a delete for action delete and a write otherwise;    *)
(* the recorded files_changed is the artifact's paths in that order and the   *)
(* recorded commit_sha is the revision the last operation returned.           *)
C20_DeployInArtifactOrder ==
    \A w \in Procs :
        /\ Len(ops[w]) <= Len(code_output[w])
        /\ \A i \in 1..Len(ops[w]) :
            /\ ops[w][i].path = code_output[w][i].path
            /\ ops[w][i].op = "delete" <=> code_output[w][i].action = "delete"
            /\ ops[w][i].op = "write" <=> code_output[w][i].action # "delete"
        /\ CommitRecorded(w) =>
            /\ Len(ops[w]) = Len(code_output[w])
            /\ files_changed[cur[w]] = [i \in 1..Len(code_output[w]) |-> code_output[w][i].path]
            /\ commit_sha[cur[w]] = (IF ops[w] = <<>> THEN None ELSE Last(ops[w]).sha)

(* a delete of one path followed by a write of another, both recorded *)
C20_Witness ==
    \E w \in Procs :
        /\ pc[w] = "finish"
        /\ Len(ops[w]) = 2
        /\ ops[w][1].op = "delete" /\ ops[w][2].op = "write"
        /\ files_changed[cur[w]] = <<"b.py", "a.py">>
        /\ commit_sha[cur[w]] = 2

(* the rows of a ledger or the entries of a log that satisfy a condition *)
Count(q, Keep(_)) == Cardinality({i \in 1..Len(q) : Keep(q[i])})

(* C21: every invocation of a phase, whether it returns or raises, has put    *)
(* exactly one row into the ledger of its task that carries the invocation's  *)
(* token count and cost.                                                      *)
C21_EveryInvocationAccounted ==
    \A w \in Procs : \A p \in Phases :
        (cur[w] # None /\ claims[cur[w]] + manual <= 1) =>
            LET Accounted(e) == e.agent_name = AgentAt(p) /\ e.accounted
            IN Count(events[cur[w]], Accounted) = Invocations(w, p)

(* C22: every invocation of a phase that returned has added one entry to the  *)
(* stored agent_log of its task.                                              *)
C22_EveryInvocationLogged ==
    \A w \in Procs : \A p \in Phases :
        (cur[w] # None /\ ~raised[w] /\ claims[cur[w]] + manual <= 1) =>
            LET ByPhase(e) == e.agent = AgentAt(p)
            IN Count(agent_log[cur[w]], ByPhase) = Invocations(w, p)

(* C23: when a run has ended by returning, the last row of its task's ledger  *)
(* identifies the outcome: the deployer's "completed" row for done, a row of  *)
(* type "failed" for every failure.                                           *)
C23_OutcomeRecorded ==
    \A w \in Procs :
        (pc[w] = "ended" /\ result[w] \in {"True", "False"}) =>
            /\ events[cur[w]] # <<>>
            /\ IF result[w] = "True"
               THEN Last(events[cur[w]]) = Event("deployer", "completed", FALSE, "")
               ELSE Last(events[cur[w]]).event_type = "failed"

(* C24: a task whose status is failed has a non-empty error_message, and each *)
(* step that takes a task into failed writes, in that step, the message of    *)
(* the run that fails it.                                                     *)
C24_FailedHasMessage ==
    [][\A t \in TaskIds :
        /\ status'[t] = "failed" => error_message'[t] # ""
        /\ (status[t] # "failed" /\ status'[t] = "failed") =>
              \E w \in Procs : /\ cur[w] = t /\ writtenErr'[w] # ""
                                /\ error_message'[t] = writtenErr'[w]]_vars

(* a task failed at the budget gate, with the budget error as its message *)
C24_Witness ==
    \E t \in TaskIds : status[t] = "failed" /\ error_message[t] = ErrBudget

(* the completion calls a run has issued for a phase: those that returned and *)
(* the one that raised                                                        *)
Issued(w, p) ==
    Invocations(w, p) +
    (IF completion[w].agent = p /\ completion[w].outcome \in {ServiceError, ErrTimeout} THEN 1 ELSE 0)

(* C29: once a completion call has raised a service error the run has ended   *)
(* with the task failed and the error text as its message, and a run issues   *)
(* at most one planner, max_review_cycles coder, max_review_cycles reviewer   *)
(* and one tester call.                                                        *)
C29_ServiceErrorEndsRun ==
    \A w \in Procs :
        /\ completion[w].outcome = ServiceError =>
              /\ pc[w] = "ended"
              /\ status[cur[w]] = "failed"
              /\ error_message[cur[w]] = ServiceError
        /\ Issued(w, "planner") <= 1 /\ Issued(w, "tester") <= 1
        /\ Issued(w, "coder") <= max_review_cycles
        /\ Issued(w, "reviewer") <= max_review_cycles

(* C30: the status of a task becomes queued only by the reset of              *)
(* run_specific, and get_next_task claims a task only while its status is     *)
(* queued: a failed task is not claimed again by a poll worker.               *)
C30_FailedNotReclaimed ==
    [][\A t \in TaskIds :
        /\ (status[t] # "queued" /\ status'[t] = "queued") =>
              /\ pc[Operator] = "rs_reset" /\ cur[Operator] = t
              /\ pc'[Operator] = "rs_plan"
        /\ claims'[t] # claims[t] => status[t] = "queued"
        /\ \A w \in Workers :
              (pc[w] = "gnt" /\ pc'[w] = "locked" /\ cur'[w] = t) => status[t] = "queued"]_vars

(* a poll worker calls get_next_task while the task it processed is failed *)
C30_Witness ==
    \E w \in Workers : \E t \in TaskIds :
        /\ pc[w] = "gnt" /\ status[t] = "failed" /\ claims[t] >= 1

(* C25: a poll cycle that claimed and processed a task, whatever the outcome, *)
(* is not followed by the sleep: the next cycle starts at once.               *)
C25_ProcessedNeverSleeps ==
    \A w \in Workers : cycle[w].run = "processed" => loop[w] # "sleep"

(* C26: whatever check_inbox did, and also when it failed, the loop goes on   *)
(* to run_once in the same cycle; an error of run_once leads to the sleep and *)
(* from there to the next cycle; the loop is left only by the signal.         *)
C26_LoopSurvivesErrors ==
    [][\A w \in Workers :
        /\ (loop[w] \in {"inbox", "ingest"} /\ loop'[w] \notin {"inbox", "ingest"}) =>
              (loop'[w] = "run_once" \/ cycle'[w].run = "cancelled")
        /\ (loop[w] # "exited" /\ loop'[w] = "exited") => cycle'[w].run = "cancelled"
        /\ (cycle[w].run # "error" /\ cycle'[w].run = "error") => loop'[w] = "sleep"
        /\ loop[w] = "sleep" => loop'[w] \in {"sleep", "inbox", "exited"}
        /\ loop[w] = "exited" => loop'[w] = "exited"]_vars

(* the worker has claimed a task in a cycle whose inbox ingestion failed *)
C26_Witness ==
    \E w \in Workers : cycle[w].inbox = "failed" /\ pc[w] = "process"

(* C27: no entry of the inbox is enqueued more than once, no entry without    *)
(* title is enqueued, and when check_inbox has loaded the entries the inbox   *)
(* list is empty.                                                              *)
C27_EnqueuedExactlyOnce ==
    /\ \A i \in EntryIds : enq[i] <= 1
    /\ \A t \in TaskIds : title[t] # ""
    /\ \A w \in Workers : cycle[w].inbox = "loaded" => inbox = InboxList(<<>>)

(* C28: no stored task has an empty title, whichever entry point enqueued it, *)
(* and every stored task that was never claimed is queued.                    *)
C28_EmptyTitleRejected ==
    \A t \in TaskIds :
        /\ title[t] # ""
        /\ claims[t] = 0 => status[t] = "queued"

(* the steps of a run after the review loop *)
PastReview == {"testing", "tester", "test_failed", "deploying", "commit", "pr", "finish", "ended"}

(* the reviewer of the run of w has approved, on attempt Len(reviews[w]) *)
Approved(w) == reviews[w] # <<>> /\ Last(reviews[w]) = "approve"

(* what holds of a run once its reviewer has approved on attempt k *)
ApprovedOnAttemptK ==
    \A w \in Procs :
        Approved(w) =>
            LET k == Len(reviews[w])
            IN /\ k <= max_review_cycles
               /\ \A i \in 1..(k - 1) : reviews[w][i] # "approve"
               /\ Invocations(w, "coder") = k /\ Invocations(w, "reviewer") = k
               /\ review_attempts[cur[w]] = k
               /\ pc[w] \in PastReview
               /\ (pc[w] \in PastReview \ {"testing", "ended"}) =>
                     /\ "testing" \in {written[w][i] : i \in DOMAIN written[w]}
                     /\ Invocations(w, "tester") <= 1

(* C31: when the reviewer first approves on attempt k, the run has invoked    *)
(* the coder and the reviewer k times each, the stored review_attempts is k   *)
(* for the rest of the run, the run goes on to testing, and the artifact it   *)
(* holds stays the one of attempt k.                                          *)
C31_FirstApprovalOnAttemptK ==
    [][/\ ApprovedOnAttemptK'
       /\ \A w \in Procs :
             (Approved(w)' /\ pc'[w] # "idle" /\ Invocations(w, "coder") = Invocations(w, "coder")') =>
                 code_output'[w] = code_output[w]]_vars

(* the reviewer rejected twice and approved the third attempt, the tester has *)
(* run and the task is being deployed with review_attempts 3                  *)
C31_Witness ==
    \E w \in Procs :
        /\ reviews[w] = <<"reject", "reject", "approve">>
        /\ pc[w] = "commit" /\ status[cur[w]] = "deploying"
        /\ review_attempts[cur[w]] = 3 /\ code_output[w] # <<>>

(* C32: every task with status done has its last revision and its             *)
(* change-request URL recorded, and the run that completed it opened exactly  *)
(* one change request.                                                        *)
C32_DoneHasReferences ==
    /\ \A t \in TaskIds :
          status[t] = "done" => commit_sha[t] # None /\ pr_url[t] # None
    /\ \A w \in Procs :
          (pc[w] = "ended" /\ result[w] = "True") =>
              Invocations(w, "create_pull_request") = 1

(* C33: a budget check, in run_once or before a coder attempt, answers open   *)
(* exactly when the recorded spend is below daily_budget_cents, and an open   *)
(* answer changes nothing in the store: no spend is recorded or reserved.     *)
C33_GateIsPureRead ==
    [][\A w \in Procs :
        /\ (w \in Workers /\ pc[w] = "idle" /\ pc'[w] = "gnt") =>
              /\ spent < daily_budget_cents
              /\ UNCHANGED storeVars
        /\ (pc[w] = "budget" /\ pc'[w] = "coder") =>
              /\ spent < daily_budget_cents
              /\ UNCHANGED storeVars
        /\ (pc[w] = "budget" /\ pc'[w] = "ended" /\ ~raised'[w]) =>
              /\ spent >= daily_budget_cents
              /\ spent' = spent
              /\ writtenErr'[w] = ErrBudget]_vars

(* the poll worker and the manual run both passed the gate while it was open, *)
(* both coders have run, and the recorded spend is above the ceiling          *)
C33_Witness ==
    \E w \in Workers :
        /\ pc[w] = "to_review" /\ pc[Operator] = "to_review"
        /\ attempt[w] = 1 /\ attempt[Operator] = 1
        /\ spent > daily_budget_cents

(* C34: the first coder call of a run receives no feedback, and the k-th call *)
(* for k > 1 receives the text of exactly the issue list the reviewer         *)
(* returned when it rejected attempt k-1.                                     *)
C34_FeedbackOfPriorAttempt ==
    \A w \in Procs :
        /\ Len(fed[w]) = Invocations(w, "coder")
        /\ \A k \in 1..Len(fed[w]) :
              IF k = 1
              THEN fed[w][k] = NoFeedback
              ELSE /\ reviews[w][k - 1] = "reject"
                   /\ fed[w][k] = [given |-> TRUE, issues |-> issues[w][k - 1]]

(* a third coder call that received the issues of the second rejection, which *)
(* differ from those of the first                                             *)
C34_Witness ==
    \E w \in Procs :
        /\ Len(fed[w]) = 3
        /\ issues[w][1] = <<"issue a">> /\ issues[w][2] = <<"issue b">>
        /\ fed[w][3].issues = <<"issue b">>

(* C35: when get_next_task hands a task to its caller the stored task is in   *)
(* status planning, and the record handed over shows that same status.        *)
C35_ReturnedRecordIsClaimed ==
    \A w \in Workers :
        pc[w] = "process" =>
            /\ status[cur[w]] = "planning"
            /\ task_status[w] = status[cur[w]]

(* C36: a run of process_task on a claimed task ends with the task done or    *)
(* failed, after at most max_review_cycles attempts and one delivery          *)
(* operation per file of the artifact.                                        *)
C36_ClaimedTaskReachesTerminal ==
    \A w \in Procs :
        /\ attempt[w] <= max_review_cycles
        /\ Len(ops[w]) <= Len(code_output[w])
        /\ pc[w] = "ended" => status[cur[w]] \in Terminal

(* C37: process_task returns True exactly when it left the task done, and on  *)
(* every other path it returns False with the task failed.                    *)
C37_ReturnsTrueIffDone ==
    \A w \in Procs :
        pc[w] = "ended" =>
            /\ result[w] = "True" <=> status[cur[w]] = "done"
            /\ result[w] # "True" => (result[w] = "False" /\ status[cur[w]] = "failed")

(* C39: a run in which a delivery operation raised while the task was         *)
(* deploying ends failed with that error, without a recorded change-request   *)
(* URL and without recorded files_changed.                                    *)
C39_DeliveryFailureRecordsNothing ==
    \A w \in Procs :
        (/\ pc[w] = "ended"
         /\ writtenErr[w] \in {HostingError, TransportError}
         /\ \E i \in DOMAIN written[w] : written[w][i] = "deploying") =>
            /\ status[cur[w]] = "failed"
            /\ result[w] = "False"
            /\ pr_url[cur[w]] = None
            /\ files_changed[cur[w]] = <<>>

(* the day's recorded spend never decreases, so a closed gate stays closed *)
SpendMonotone ==
    /\ spent' >= spent
    /\ spent >= daily_budget_cents => spent' >= daily_budget_cents

(* C38 as stated: the recorded spend never decreases, a closed gate stays     *)
(* closed, and with the gate closed no poll worker's get_next_task claims a   *)
(* task.                                                                      *)
C38_ClosedGateNoFurtherClaim ==
    [][/\ SpendMonotone
       /\ \A w \in Callers :
             (spent >= daily_budget_cents /\ pc[w] = "gnt") => pc'[w] # "locked"]_vars

(* C38 (amended): the recorded spend never decreases, a closed gate stays     *)
(* closed, and a run_once that checks the gate once it has closed returns     *)
(* without calling get_next_task; only a run_once that passed the check       *)
(* before the gate closed can still claim a task.                             *)
C38_ClosedGateStaysClosed ==
    [][/\ SpendMonotone
       /\ \A w \in Callers :
             /\ (spent >= daily_budget_cents /\ pc[w] = "idle") =>
                   (pc'[w] = "idle" /\ cur'[w] = None)
             /\ (pc[w] = "idle" /\ pc'[w] = "gnt") => spent < daily_budget_cents]_vars

(* the runs of the first task took the spend over the ceiling; a poll worker  *)
(* is about to check the gate while the second task is still queued           *)
C38_Witness ==
    \E w \in Callers : \E t, u \in TaskIds :
        /\ pc[w] = "idle" /\ spent = MaxSpent
        /\ status[t] = "queued" /\ status[u] \in Terminal

(* C40: a task whose status is done has no error_message and carries the     *)
(* review_attempts of the run that completed it; stated of a task completed   *)
(* by a manual re-run while no poll worker holds it.                          *)
C40_DoneHasNoError ==
    \A t \in TaskIds :
        (/\ status[t] = "done"
         /\ \A w \in Workers : cur[w] # t
         /\ cur[Operator] = t /\ pc[Operator] = "ended" /\ result[Operator] = "True") =>
            /\ error_message[t] = ""
            /\ review_attempts[t] = attempt[Operator]

====
